---- MODULE Spec2Model ----
(***************************************************************************)
(* pixeldot: the batch spec evaluator (spec.py) and the layer stack        *)
(* (layers.py), as state machines.                                         *)
(*                                                                         *)
(* Spec.render is modelled one step of the interpreter at a time: the      *)
(* for-loop of render, and the activations of _ensure_rendered as an       *)
(* explicit call stack.  An optional YAML field is a sequence: <<>> when   *)
(* the key is absent, <<v>> when it is present with value v.  A text       *)
(* (block, grid) is the sequence of its lines, a line the sequence of its  *)
(* characters.                                                             *)
(***************************************************************************)
EXTENDS Integers, Sequences, FiniteSets, TLC

\* ------------------------------------------------------------------ bounds

\* Depth of nested _ensure_rendered activations the interpreter allows
\* before it raises RecursionError (CPython's recursion limit, scaled down).
MaxDepth == 5

\* Longest list of names handed to LayerStack.reorder.
MaxReorderLen == 3

\* ------------------------------------------------------- optional values

Absent == <<>>

Some(v) == <<v>>

Has(opt) == opt # <<>>

Get(opt) == opt[1]

\* dict.get(key, default)
GetOr(opt, default) == IF opt = <<>> THEN default ELSE opt[1]

Max2(a, b) == IF a >= b THEN a ELSE b

Min2(a, b) == IF a <= b THEN a ELSE b

\* ------------------------------------------------------------------ colors

TRANSPARENT == <<0, 0, 0, 0>>

BLACK == <<0, 0, 0, 255>>

WHITE == <<255, 255, 255, 255>>

\* --------------------------------------------------------------- sprites
\* A sprite is its size, the operation that built it, the definition and
\* the resolved sprites that operation read, and, for a sprite rendered
\* from text, its pixel grid.  Every renderer of spec.py is a function of
\* exactly these, so equal records are equal sprites.

NoDefn ==
    [type |-> <<>>, block |-> <<>>, frames |-> <<>>, sprites |-> <<>>,
     columns |-> <<>>, padding |-> <<>>, tileset |-> <<>>, grid |-> <<>>,
     layers |-> <<>>, width |-> <<>>, height |-> <<>>,
     outline |-> <<>>, shadow |-> <<>>]

NoSprite ==
    [w |-> 0, h |-> 0, op |-> "none", defn |-> NoDefn, parts |-> <<>>, pix |-> <<>>]

MkSprite(w, h, op, defn, parts, pix) ==
    [w |-> w, h |-> h, op |-> op, defn |-> defn, parts |-> parts, pix |-> pix]

\* The outcome of a call: a value or the exception it raised.
Ok(s) == [exc |-> "none", sprite |-> s]

Raise(kind) == [exc |-> kind, sprite |-> NoSprite]

\* ---------------------------------------------------------- StringCanvas

\* Palette.__contains__
PaletteHas(pal, ch) == ch \in DOMAIN pal

\* The pixel rows StringCanvas.render builds: one palette color per character.
CanvasPixels(pal, rows) ==
    [y \in 1..Len(rows) |-> [x \in 1..Len(rows[y]) |-> pal[rows[y][x]]]]

\* StringCanvas.render(rows): empty rows are dropped, the rest must be as long
\* as the first, every character must be a palette key.
CanvasRender(pal, rows) ==
    IF rows = <<>> THEN Raise("ValueError")
    ELSE LET kept == SelectSeq(rows, LAMBDA r : r # <<>>) IN
         IF kept = <<>> THEN Raise("ValueError")
         ELSE IF \E i \in 1..Len(kept) : Len(kept[i]) # Len(kept[1])
              THEN Raise("ValueError")
         ELSE IF \E y \in 1..Len(kept) : \E x \in 1..Len(kept[y]) :
                     ~PaletteHas(pal, kept[y][x])
              THEN Raise("KeyError")
         ELSE Ok(MkSprite(Len(kept[1]), Len(kept), "block", NoDefn, <<>>,
                          CanvasPixels(pal, kept)))

\* The lines left after the leading and trailing blank lines are popped
\* (render_block, TileMap._parse_block).  The texts of this model hold no
\* whitespace, so a blank line is an empty one and dedent changes nothing.
StripBlankLines(lines) ==
    LET full == {i \in 1..Len(lines) : lines[i] # <<>>} IN
    IF full = {} THEN <<>>
    ELSE LET first == CHOOSE i \in full : \A j \in full : i <= j
             last  == CHOOSE i \in full : \A j \in full : i >= j
         IN SubSeq(lines, first, last)

\* StringCanvas.render_block(block)
CanvasRenderBlock(pal, block) ==
    LET lines == StripBlankLines(block) IN
    IF lines = <<>> THEN Raise("ValueError") ELSE CanvasRender(pal, lines)

\* Python's `not text` for a str: only the empty string, which splits into
\* one empty line, is false.
EmptyText(text) == text = << <<>> >>

\* -------------------------------------------------------- sheets, tiles

\* StripSheet(frames).to_sprite(), frames a non-empty list of sprites.
StripSheetSprite(frames) ==
    IF frames = <<>> THEN Raise("ValueError")
    ELSE IF \E i \in 1..Len(frames) :
                frames[i].w # frames[1].w \/ frames[i].h # frames[1].h
         THEN Raise("ValueError")
    ELSE Ok(MkSprite(frames[1].w * Len(frames), frames[1].h, "strip",
                     NoDefn, frames, <<>>))

SeqMaxW(ss) == CHOOSE m \in {ss[i].w : i \in 1..Len(ss)} :
                   \A i \in 1..Len(ss) : ss[i].w <= m

SeqMaxH(ss) == CHOOSE m \in {ss[i].h : i \in 1..Len(ss)} :
                   \A i \in 1..Len(ss) : ss[i].h <= m

\* `columns` when the definition gives none.
DefaultColumns == 4

\* GridSheet(sprites, columns, padding).to_sprite()
GridSheetSprite(defn, sprites) ==
    LET columns == GetOr(defn.columns, DefaultColumns)
        padding == GetOr(defn.padding, 0)
    IN
    IF sprites = <<>> THEN Raise("ValueError")
    ELSE IF columns < 1 THEN Raise("ValueError")
    ELSE LET rows    == (Len(sprites) + columns - 1) \div columns
             total_w == Max2(1, columns * (SeqMaxW(sprites) + padding) - padding)
             total_h == Max2(1, rows * (SeqMaxH(sprites) + padding) - padding)
         IN Ok(MkSprite(total_w, total_h, "grid", defn, sprites, <<>>))

\* TileSet(tiles): every tile has the size of the first.
TileSetOk(tiles) ==
    /\ tiles # <<>>
    /\ \A i \in 1..Len(tiles) : tiles[i].w = tiles[1].w /\ tiles[i].h = tiles[1].h

\* TileMap(tileset, grid).to_sprite(), grid a text: rows of tileset keys.
TileMapSprite(defn, keys, tiles) ==
    IF ~TileSetOk(tiles) THEN Raise("ValueError")
    ELSE LET rows == StripBlankLines(Get(defn.grid)) IN
         IF rows = <<>> THEN Raise("ValueError")
         ELSE LET bad == {i \in 1..Len(rows) :
                            \/ Len(rows[i]) # Len(rows[1])
                            \/ \E j \in 1..Len(rows[i]) :
                                 \A k \in 1..Len(keys) : keys[k] # rows[i][j]}
              IN
              IF bad # {}
              THEN LET i == CHOOSE i \in bad : \A j \in bad : i <= j IN
                   IF Len(rows[i]) # Len(rows[1])
                   THEN Raise("ValueError") ELSE Raise("KeyError")
              ELSE Ok(MkSprite(Len(rows[1]) * tiles[1].w, Len(rows) * tiles[1].h,
                               "tilemap", defn, tiles, <<>>))

\* ------------------------------------------------------------- effects

OutlineStyles == {"none", "thin", "thick", "selective"}

\* apply_outline(sprite, color, style): a sprite two pixels wider and higher,
\* or the sprite itself for the style NONE.
ApplyOutline(sprite, defn, style) ==
    IF style = "none" THEN sprite
    ELSE MkSprite(sprite.w + 2, sprite.h + 2, "outline", defn, <<sprite>>, <<>>)

\* apply_shadow(sprite, offset, opacity): the canvas grows by the offset.
ApplyShadow(sprite, defn, offset) ==
    LET min_x == Min2(0, offset[1])
        min_y == Min2(0, offset[2])
        max_x == Max2(sprite.w, sprite.w + offset[1])
        max_y == Max2(sprite.h, sprite.h + offset[2])
    IN MkSprite(max_x - min_x, max_y - min_y, "shadow", defn, <<sprite>>, <<>>)

\* The `outline` half of Spec._apply_effects.  A configuration is
\* [bool, on, style, offset]: a YAML boolean `on`, or a mapping.
OutlineEffect(sprite, defn) ==
    IF ~Has(defn.outline) THEN Ok(sprite)
    ELSE LET cfg == Get(defn.outline) IN
         IF cfg.bool
         THEN IF cfg.on THEN Ok(ApplyOutline(sprite, defn, "thin")) ELSE Ok(sprite)
         ELSE LET style == GetOr(cfg.style, "thin") IN
              IF style \notin OutlineStyles THEN Raise("KeyError")
              ELSE Ok(ApplyOutline(sprite, defn, style))

\* The `shadow` half of Spec._apply_effects.
ShadowEffect(sprite, defn) ==
    IF ~Has(defn.shadow) THEN sprite
    ELSE LET cfg == Get(defn.shadow) IN
         IF cfg.bool
         THEN IF cfg.on THEN ApplyShadow(sprite, defn, <<1, 1>>) ELSE sprite
         ELSE ApplyShadow(sprite, defn, GetOr(cfg.offset, <<1, 1>>))

\* Effects in the other order: shadow, then outline.
ShadowThenOutline(sprite, defn) == OutlineEffect(ShadowEffect(sprite, defn), defn)

\* Spec._apply_effects(sprite, defn): outline, then shadow.
ApplyEffects(sprite, defn) ==
    LET o == OutlineEffect(sprite, defn) IN
    IF o.exc # "none" THEN o ELSE Ok(ShadowEffect(o.sprite, defn))

\* ------------------------------------------------------------ LayerStack

\* BlendMode
BlendModes == {"normal", "multiply", "screen", "overlay", "add", "subtract"}

\* Opacity 1.0, the default of Layer and of add_layer; opacities are kept in
\* hundredths.
OpacityOne == 100

\* Layer(name, sprite, opacity, blend_mode): visible unless hidden later.
MkLayer(name, sprite, opacity, blend_mode) ==
    [name |-> name, sprite |-> sprite, opacity |-> opacity, visible |-> TRUE,
     blend_mode |-> blend_mode]

LayerNames(ls) == [i \in 1..Len(ls) |-> ls[i].name]

HasLayer(ls, name) == \E i \in 1..Len(ls) : ls[i].name = name

\* list.insert(position, x): a negative position counts from the end, a
\* position beyond either end is clamped to it.
InsertAt(seq, position, x) ==
    LET n == Len(seq)
        p == IF position < 0 THEN Max2(0, n + position) ELSE Min2(position, n)
    IN SubSeq(seq, 1, p) \o <<x>> \o SubSeq(seq, p + 1, n)

\* An add_layer that does not compare the sprite's size with the stack's.
AddLayerUnsized(ls, w, h, name, sprite, opacity, blend_mode, position) ==
    IF HasLayer(ls, name) THEN [exc |-> "ValueError", layers |-> ls]
    ELSE [exc |-> "none",
          layers |-> IF ~Has(position)
                     THEN Append(ls, MkLayer(name, sprite, opacity, blend_mode))
                     ELSE InsertAt(ls, Get(position),
                                   MkLayer(name, sprite, opacity, blend_mode))]

\* LayerStack.add_layer on a stack of size w x h holding ls; position is
\* <<>> for None (the top) or <<index>>.  The outcome: the exception and
\* the layers.
AddLayerOutcome(ls, w, h, name, sprite, opacity, blend_mode, position) ==
    IF HasLayer(ls, name) THEN [exc |-> "ValueError", layers |-> ls]
    ELSE IF sprite.w # w \/ sprite.h # h THEN [exc |-> "ValueError", layers |-> ls]
    ELSE LET layer == MkLayer(name, sprite, opacity, blend_mode) IN
         [exc |-> "none",
          layers |-> IF ~Has(position) THEN Append(ls, layer)
                     ELSE InsertAt(ls, Get(position), layer)]

\* LayerStack.flatten() of the stack a `layers` definition builds: a sprite
\* of the stack's size, composited from the layers.
FlattenSprite(defn, w, h, ls) ==
    MkSprite(w, h, "layers", defn, [i \in 1..Len(ls) |-> ls[i].sprite], <<>>)

\* ---------------------------------------------------------- pixel blending

Abs(n) == IF n < 0 THEN -n ELSE n

RECURSIVE Gcd(_, _)
Gcd(a, b) == IF b = 0 THEN a ELSE Gcd(b, a % b)

\* Python's int() of the quotient n / d: truncation towards zero.
Trunc(n, d) ==
    LET nn == IF d < 0 THEN -n ELSE n
        dd == Abs(d)
    IN IF nn >= 0 THEN nn \div dd ELSE -((-nn) \div dd)

\* The integers int() can yield for a quotient that the code computes in
\* binary floating point and whose exact value is n / d.  A quotient that is
\* not an integer is further from one than the rounding error, so it
\* truncates as the exact value does.  One that is an integer k may be
\* computed just short of k and then truncates to the integer next to k on
\* the side of zero, unless every intermediate value is exactly
\* representable (`exact`).
FloatInt(n, d, exact) ==
    LET k == Trunc(n, d) IN
    IF exact \/ k = 0 \/ n % Abs(d) # 0 THEN {k}
    ELSE {k, IF k > 0 THEN k - 1 ELSE k + 1}

\* br, bg, bb of _blend_pixel for one channel, times 255 * 255; for NORMAL
\* the source channel itself.
BlendTerm(s, d, mode) ==
    IF mode = "normal" THEN 255 * s
    ELSE IF mode = "multiply" THEN s * d
    ELSE IF mode = "screen" THEN 65025 - (255 - s) * (255 - d)
    ELSE IF mode = "overlay"
         THEN IF 2 * d < 255 THEN 2 * s * d
              ELSE 65025 - 2 * (255 - s) * (255 - d)
    ELSE IF mode = "add" THEN 255 * Min2(s + d, 255)
    ELSE 255 * Max2(d - s, 0)

\* With sa = 1.0 a channel is int(br * 255).  For NORMAL no division is
\* left; 1.0 * dr and 0.0 * dr are exact and (d / 255.0) * 255 is d for every
\* d of 0..255; 1 - 0.0 * x is 1.0.  Any other br may fall short of its
\* exact value.
ExactTerm(s, d, mode) ==
    \/ mode = "normal"
    \/ mode = "multiply" /\ s \in {0, 255}
    \/ mode = "screen" /\ (s = 255 \/ d = 255)

\* _blend_pixel(src, dst, mode, opacity): the colors it can return.  With
\* opacity = p / q in lowest terms, sa = SA / (255 q), 1 - sa = W / (255 q),
\* out_a = D / (255 * 255 q), and each channel is the quotient of
\* term * SA + dst * dst_alpha * W by D; out_a * 255 is D / (255 q).
BlendChoices(src, dst, mode, opacity) ==
    LET g  == Gcd(Abs(opacity), OpacityOne)
        p  == opacity \div g
        q  == OpacityOne \div g
        SA == src[4] * p
    IN
    IF SA = 0 THEN {dst}
    ELSE LET W == 255 * q - SA
             D == 255 * SA + dst[4] * W
             N(i) == BlendTerm(src[i], dst[i], mode) * SA + dst[i] * dst[4] * W
         IN
         IF D = 0 THEN {TRANSPARENT}
         ELSE {<<r, gg, b, a>> :
                  r  \in FloatInt(N(1), D, W = 0 /\ ExactTerm(src[1], dst[1], mode)),
                  gg \in FloatInt(N(2), D, W = 0 /\ ExactTerm(src[2], dst[2], mode)),
                  b  \in FloatInt(N(3), D, W = 0 /\ ExactTerm(src[3], dst[3], mode)),
                  a  \in FloatInt(D, 255 * q, W = 0)}

RECURSIVE PixelChoicesHiddenToo(_, _, _, _)
\* A fold that composites hidden layers as well.
PixelChoicesHiddenToo(ls, x, y, k) ==
    IF k = 0 THEN {TRANSPARENT}
    ELSE LET below == PixelChoicesHiddenToo(ls, x, y, k - 1)
             src   == ls[k].sprite.pix[y][x]
         IN IF src[4] = 0 THEN below
            ELSE UNION {BlendChoices(src, dst, ls[k].blend_mode, ls[k].opacity) :
                           dst \in below}

RECURSIVE PixelChoices(_, _, _, _)
\* The colors pixel (x, y) of flatten's canvas can hold after the first k
\* layers: hidden layers and alpha-0 source pixels are passed over.
PixelChoices(ls, x, y, k) ==
    IF k = 0 THEN {TRANSPARENT}
    ELSE LET below == PixelChoices(ls, x, y, k - 1)
             src   == ls[k].sprite.pix[y][x]
         IN IF ~ls[k].visible THEN below
            ELSE IF src[4] = 0 THEN below
            ELSE UNION {BlendChoices(src, dst, ls[k].blend_mode, ls[k].opacity) :
                           dst \in below}

\* LayerStack.flatten() on a w x h stack holding ls: the exception, and for
\* every pixel of the sprite returned the colors it can hold.  get_pixel
\* fails on a visible layer smaller than the stack, Sprite(...) on an empty
\* grid.
FlattenOutcome(w, h, ls) ==
    IF w >= 1 /\ h >= 1 /\ \E k \in 1..Len(ls) :
                              ls[k].visible /\ (ls[k].sprite.w < w \/ ls[k].sprite.h < h)
    THEN [exc |-> "IndexError", grid |-> <<>>]
    ELSE IF w < 1 \/ h < 1 THEN [exc |-> "ValueError", grid |-> <<>>]
    ELSE [exc |-> "none",
          grid |-> [y \in 1..h |-> [x \in 1..w |-> PixelChoices(ls, x, y, Len(ls))]]]

\* ------------------------------------------------------ sprite definitions

\* defn.get("type", "block")
TypeOf(defn) == GetOr(defn.type, "block")

CompositeTypes == {"strip", "grid", "tilemap", "layers"}

\* A `layers` entry: a plain name (str), or a mapping whose keys may be absent.
LayerStr(ref) ==
    [str |-> TRUE, sprite |-> <<ref>>, name |-> <<>>, opacity |-> <<>>,
     blend_mode |-> <<>>]

LayerMap(sprite, name, opacity, blend_mode) ==
    [str |-> FALSE, sprite |-> sprite, name |-> name, opacity |-> opacity,
     blend_mode |-> blend_mode]

\* Python's `not x` for an optional text: the key is absent or the string empty.
NoText(opt) == IF opt = <<>> THEN TRUE ELSE EmptyText(opt[1])

\* Python's `not x` for an optional list or mapping: absent or empty.
NoItems(opt) == IF opt = <<>> THEN TRUE ELSE opt[1] = <<>>

\* The check each _render_* makes first: `if not field: raise SpecError`.
MissingField(defn) ==
    LET t == TypeOf(defn) IN
    IF t = "block" THEN NoText(defn.block)
    ELSE IF t = "strip" THEN NoItems(defn.frames)
    ELSE IF t = "grid" THEN NoItems(defn.sprites)
    ELSE IF t = "tilemap" THEN (IF NoItems(defn.tileset) THEN TRUE ELSE NoText(defn.grid))
    ELSE IF t = "layers" THEN NoItems(defn.layers)
    ELSE FALSE

\* The references a composite definition resolves, in the order of its calls
\* to _ensure_rendered, each an optional name: frames; the values of sprites;
\* the values of tileset; for layers the first entry (resolved ahead to size
\* the stack) and then every entry.  A mapping entry without `sprite` has none.
CallList(defn) ==
    LET t == TypeOf(defn) IN
    IF t = "strip" THEN [i \in 1..Len(Get(defn.frames)) |-> <<Get(defn.frames)[i]>>]
    ELSE IF t = "grid"
         THEN [i \in 1..Len(Get(defn.sprites)) |-> <<Get(defn.sprites)[i].ref>>]
    ELSE IF t = "tilemap"
         THEN [i \in 1..Len(Get(defn.tileset)) |-> <<Get(defn.tileset)[i].ref>>]
    ELSE LET ld == Get(defn.layers) IN
         <<ld[1].sprite>> \o [i \in 1..Len(ld) |-> ld[i].sprite]

\* ------------------------------------------------------------------ state

VARIABLES
    sprite_defs,   \* Spec.sprite_defs: name -> definition
    palette,       \* Spec.palette: character -> color
    only,          \* render's argument: <<>> for None, <<S>> for a set S
    results,       \* render's local dict, in insertion order: <<[name, sprite]>>
    loopIdx,       \* position of render's for-loop in the keys of sprite_defs
    stack,         \* the activations of _ensure_rendered, outermost first
    status,        \* "idle", "running", "returned" or "raised"
    raised,        \* the exception that ended the call, and where it arose
    returned,      \* what the call returned: <<>> or <<results>>
    rendered,      \* name -> times its rendering completed in this call
    prevStatus,    \* status of the call before this one
    width,         \* LayerStack._width
    height,        \* LayerStack._height
    layers,        \* LayerStack._layers, bottom to top
    call,          \* the last LayerStack call: its name and its `names`
    exc,           \* the exception that call raised, or "none"
    flat,          \* what flatten() returned: <<>> or <<grid of outcomes>>
    heap,          \* the list objects: pixel rows, and lists of rows
    callerGrid,    \* the list the caller built the Sprite from
    self,          \* Sprite._pixels of the Sprite that methods are called on
    op,            \* the last Sprite call: its name and its arguments
    out,           \* the outcome of that call: exception, pixel grid
    canvas,        \* a StringCanvas, the rows rendered, the sprite, its strings
    tilemap,       \* a TileMap and what to_sprite() returned
    layout,        \* a RegionLayout, the parts composed, what came back
    fast,          \* a FastSprite call and its outcome beside Sprite's
    auto,          \* a sprite and what AutoPalette.from_sprite returned
    blending       \* a call of _blend_pixel and what it returned

specVars == <<sprite_defs, palette, only, results, loopIdx, stack, status,
              raised, returned, rendered, prevStatus>>

stackVars == <<width, height, layers, call, exc>>

\* The objects of the modules that keep no state between calls.
valueVars == <<canvas, tilemap, layout, fast, auto, blending>>

pixelVars == <<flat, heap, callerGrid, self, op, out, valueVars>>

vars == <<sprite_defs, palette, only, results, loopIdx, stack, status, raised,
          returned, rendered, prevStatus, width, height, layers, call, exc,
          flat, heap, callerGrid, self, op, out, canvas, tilemap, layout,
          fast, auto, blending>>

\* No list object exists.  A list is named by its position in heap.rows (a
\* row of pixels) or in heap.grids (a list of rows); 0 names none.
NoObjects == [rows |-> <<>>, grids |-> <<>>]

\* An object no call was made on.
Unused == [step |-> "unused"]

NoValues ==
    /\ canvas = Unused
    /\ tilemap = Unused
    /\ layout = Unused
    /\ fast = Unused
    /\ auto = Unused
    /\ blending = Unused

\* No Sprite method has been called, and so none has an outcome.
NoCall == [name |-> "init", arg |-> 0, x |-> 0, y |-> 0, w |-> 0, h |-> 0,
           old |-> <<0, 0, 0, 0>>, new |-> <<0, 0, 0, 0>>, given |-> <<>>]

NoOutcome == [exc |-> "none", pixels |-> 0]

\* The keys of sprite_defs in the order of the YAML mapping.
DefOrder == <<"a", "b", "c">>

DefNames == {DefOrder[i] : i \in 1..Len(DefOrder)}

\* A name no definition has.
Undefined == "zz"

NoRaise == [kind |-> "none", name |-> "", idx |-> 0, phase |-> ""]

\* ------------------------------------------------------- the results dict

\* `name in results`
InResults(res, name) == \E i \in 1..Len(res) : res[i].name = name

\* results[name]
Lookup(res, name) == (CHOOSE e \in {res[i] : i \in 1..Len(res)} : e.name = name).sprite

\* A store that is forgotten.
DictSetForgotten(res, name, sprite) == res

\* A store that puts a new key first.
DictSetInFront(res, name, sprite) ==
    IF InResults(res, name)
    THEN [i \in 1..Len(res) |->
            IF res[i].name = name THEN [name |-> name, sprite |-> sprite] ELSE res[i]]
    ELSE <<[name |-> name, sprite |-> sprite]>> \o res

\* results[name] = sprite: a new key goes last, a known key keeps its place.
DictSet(res, name, sprite) ==
    IF InResults(res, name)
    THEN [i \in 1..Len(res) |->
            IF res[i].name = name THEN [name |-> name, sprite |-> sprite] ELSE res[i]]
    ELSE Append(res, [name |-> name, sprite |-> sprite])

Keys(res) == {res[i].name : i \in 1..Len(res)}

\* --------------------------------------------------------------- frames

NewFrame(name) ==
    [name |-> name, pc |-> "enter", idx |-> 1, parts |-> <<>>, ls |-> <<>>,
     sw |-> 0, sh |-> 0]

Top == stack[Len(stack)]

\* The caller's activation takes the sprite its call returned.  For strip,
\* grid and tilemap it is collected.  For layers the first call sizes the
\* stack; every later one is followed by BlendMode(...) and stack.add_layer.
Resume(frame, sprite) ==
    LET defn == sprite_defs[frame.name] IN
    IF TypeOf(defn) # "layers"
    THEN [exc |-> "none",
          frame |-> [frame EXCEPT !.parts = Append(@, sprite), !.idx = @ + 1]]
    ELSE IF frame.idx = 1
    THEN [exc |-> "none",
          frame |-> [frame EXCEPT !.sw = GetOr(defn.width, sprite.w),
                                  !.sh = GetOr(defn.height, sprite.h),
                                  !.idx = 2]]
    ELSE LET entry   == Get(defn.layers)[frame.idx - 1]
             ref     == Get(entry.sprite)
             lname   == IF entry.str THEN ref ELSE GetOr(entry.name, ref)
             opacity == IF entry.str THEN OpacityOne
                        ELSE GetOr(entry.opacity, OpacityOne)
             blend   == IF entry.str THEN "normal"
                        ELSE GetOr(entry.blend_mode, "normal")
         IN
         IF blend \notin BlendModes THEN [exc |-> "ValueError", frame |-> frame]
         ELSE LET r == AddLayerOutcome(frame.ls, frame.sw, frame.sh, lname,
                                       sprite, opacity, blend, Absent)
              IN [exc |-> r.exc,
                  frame |-> [frame EXCEPT !.ls = r.layers, !.idx = @ + 1]]

\* The type-specific rendering once every reference is resolved.
Build(frame) ==
    LET defn == sprite_defs[frame.name]
        t    == TypeOf(defn)
    IN
    IF t = "strip" THEN StripSheetSprite(frame.parts)
    ELSE IF t = "grid" THEN GridSheetSprite(defn, frame.parts)
    ELSE IF t = "tilemap"
         THEN TileMapSprite(defn,
                            [i \in 1..Len(Get(defn.tileset)) |-> Get(defn.tileset)[i].key],
                            frame.parts)
    ELSE Ok(FlattenSprite(defn, frame.sw, frame.sh, frame.ls))

\* A loop that skips nothing: `only` ignored.
SkippedNever(name) == FALSE

\* `if only and name not in only: continue`
Skipped(name) == Has(only) /\ Get(only) # {} /\ name \notin Get(only)

\* A guard that also rejects a name whose rendering is in progress.
NotDefinedOrInProgress(name) ==
    IF name \notin DOMAIN sprite_defs THEN TRUE
    ELSE \E i \in 1..(Len(stack) - 1) : stack[i].name = name

\* `if name not in self.sprite_defs: raise SpecError`
NotDefined(name) == name \notin DOMAIN sprite_defs

\* A handler that hands back what was rendered before the failure.
PartialOnRaise == Some(results)

\* render has no handler: an exception leaves it without a return value.
ReturnedOnRaise == Absent

\* A results dict kept on the Spec from call to call.
StaleResults == results

\* render's `results = {}`
FreshResults == <<>>

\* A lookup that never finds a memoized sprite.
MemoizedNever(name) == FALSE

\* `if name in results`
Memoized(name) == InResults(results, name)

\* ------------------------------------------------------------ Spec.render

\* An exception propagates out of render.
Raising(kind, name, idx, phase) ==
    /\ status' = "raised"
    /\ raised' = [kind |-> kind, name |-> name, idx |-> idx, phase |-> phase]
    /\ returned' = ReturnedOnRaise
    /\ stack' = <<>>

\* The top activation returns `sprite` to its caller: render's loop, which
\* drops it, or the activation below, which resumes.
Returning(sprite) ==
    LET below == SubSeq(stack, 1, Len(stack) - 1) IN
    IF below = <<>>
    THEN /\ stack' = <<>>
         /\ UNCHANGED <<status, raised, returned>>
    ELSE LET parent == below[Len(below)]
             r      == Resume(parent, sprite)
         IN
         IF r.exc = "none"
         THEN /\ stack' = [below EXCEPT ![Len(below)] = r.frame]
              /\ UNCHANGED <<status, raised, returned>>
         ELSE Raising(r.exc, parent.name, parent.idx, "resume")

\* `sprite = self._apply_effects(sprite, defn); results[name] = sprite;
\* return sprite`, given the outcome of the type-specific rendering.
Complete(name, built) ==
    IF built.exc # "none"
    THEN /\ Raising(built.exc, name, Top.idx, "render")
         /\ UNCHANGED <<results, rendered>>
    ELSE LET fx == ApplyEffects(built.sprite, sprite_defs[name]) IN
         IF fx.exc # "none"
         THEN /\ Raising(fx.exc, name, Top.idx, "render")
              /\ UNCHANGED <<results, rendered>>
         ELSE /\ results' = DictSet(results, name, fx.sprite)
              /\ rendered' = [rendered EXCEPT ![name] = @ + 1]
              /\ Returning(fx.sprite)

\* spec.render(only): a new call on the Spec, once the one before has ended.
RenderCall(o) ==
    /\ status # "running"
    /\ status' = "running"
    /\ prevStatus' = status
    /\ only' = o
    /\ results' = FreshResults
    /\ loopIdx' = 1
    /\ stack' = <<>>
    /\ raised' = NoRaise
    /\ returned' = Absent
    /\ rendered' = [n \in DefNames \cup {Undefined} |-> 0]
    /\ UNCHANGED <<sprite_defs, palette>>
    /\ UNCHANGED <<stackVars, pixelVars>>

\* The for-loop passes a name that `only` leaves out.
RenderSkip ==
    /\ status = "running" /\ stack = <<>> /\ loopIdx <= Len(DefOrder)
    /\ Skipped(DefOrder[loopIdx])
    /\ loopIdx' = loopIdx + 1
    /\ UNCHANGED <<sprite_defs, palette, only, results, stack, status, raised,
                   returned, rendered, prevStatus>>
    /\ UNCHANGED <<stackVars, pixelVars>>

\* The for-loop calls _ensure_rendered(name, results).
RenderSelect ==
    /\ status = "running" /\ stack = <<>> /\ loopIdx <= Len(DefOrder)
    /\ ~Skipped(DefOrder[loopIdx])
    /\ loopIdx' = loopIdx + 1
    /\ stack' = <<NewFrame(DefOrder[loopIdx])>>
    /\ UNCHANGED <<sprite_defs, palette, only, results, status, raised,
                   returned, rendered, prevStatus>>
    /\ UNCHANGED <<stackVars, pixelVars>>

\* `return results`
RenderReturn ==
    /\ status = "running" /\ stack = <<>> /\ loopIdx > Len(DefOrder)
    /\ status' = "returned"
    /\ returned' = Some(results)
    /\ UNCHANGED <<sprite_defs, palette, only, results, loopIdx, stack, raised,
                   rendered, prevStatus>>
    /\ UNCHANGED <<stackVars, pixelVars>>

\* ------------------------------------------------- Spec._ensure_rendered

Entering == status = "running" /\ stack # <<>> /\ Top.pc = "enter"

Resolving == status = "running" /\ stack # <<>> /\ Top.pc = "refs"

\* `if name in results: return results[name]`
EnsureMemoHit ==
    /\ Entering
    /\ Memoized(Top.name)
    /\ Returning(Lookup(results, Top.name))
    /\ UNCHANGED <<sprite_defs, palette, only, results, loopIdx, rendered, prevStatus>>
    /\ UNCHANGED <<stackVars, pixelVars>>

\* `if name not in self.sprite_defs: raise SpecError`
EnsureUndefined ==
    /\ Entering
    /\ ~Memoized(Top.name)
    /\ NotDefined(Top.name)
    /\ Raising("SpecError", Top.name, Top.idx, "enter")
    /\ UNCHANGED <<sprite_defs, palette, only, results, loopIdx, rendered, prevStatus>>
    /\ UNCHANGED <<stackVars, pixelVars>>

\* The type is none of the five, or the type's required field is missing:
\* SpecError.
EnsureMalformed ==
    /\ Entering
    /\ ~Memoized(Top.name)
    /\ ~NotDefined(Top.name)
    /\ (IF TypeOf(sprite_defs[Top.name]) \notin CompositeTypes \cup {"block"}
        THEN TRUE ELSE MissingField(sprite_defs[Top.name]))
    /\ Raising("SpecError", Top.name, Top.idx, "enter")
    /\ UNCHANGED <<sprite_defs, palette, only, results, loopIdx, rendered, prevStatus>>
    /\ UNCHANGED <<stackVars, pixelVars>>

\* A block: rendered from its text, effects applied, memoized, returned.
EnsureBlock ==
    /\ Entering
    /\ ~Memoized(Top.name)
    /\ ~NotDefined(Top.name)
    /\ TypeOf(sprite_defs[Top.name]) = "block"
    /\ ~MissingField(sprite_defs[Top.name])
    /\ Complete(Top.name, CanvasRenderBlock(palette, Get(sprite_defs[Top.name].block)))
    /\ UNCHANGED <<sprite_defs, palette, only, loopIdx, prevStatus>>
    /\ UNCHANGED <<stackVars, pixelVars>>

\* A strip, grid, tilemap or layers with its field: on to its references.
EnsureComposite ==
    /\ Entering
    /\ ~Memoized(Top.name)
    /\ ~NotDefined(Top.name)
    /\ TypeOf(sprite_defs[Top.name]) \in CompositeTypes
    /\ ~MissingField(sprite_defs[Top.name])
    /\ stack' = [stack EXCEPT ![Len(stack)].pc = "refs"]
    /\ UNCHANGED <<sprite_defs, palette, only, results, loopIdx, status, raised,
                   returned, rendered, prevStatus>>
    /\ UNCHANGED <<stackVars, pixelVars>>

\* The next reference: layer_def["sprite"] of a mapping without that key is a
\* KeyError; a call beyond the interpreter's depth is a RecursionError;
\* otherwise _ensure_rendered(ref, results) is entered.
ResolveRef ==
    /\ Resolving
    /\ Top.idx <= Len(CallList(sprite_defs[Top.name]))
    /\ LET ref == CallList(sprite_defs[Top.name])[Top.idx] IN
       IF ~Has(ref) THEN Raising("KeyError", Top.name, Top.idx, "call")
       ELSE IF Len(stack) >= MaxDepth
            THEN Raising("RecursionError", Top.name, Top.idx, "call")
       ELSE /\ stack' = Append(stack, NewFrame(Get(ref)))
            /\ UNCHANGED <<status, raised, returned>>
    /\ UNCHANGED <<sprite_defs, palette, only, results, loopIdx, rendered, prevStatus>>
    /\ UNCHANGED <<stackVars, pixelVars>>

\* Every reference is resolved: the sheet, map or stack is built, effects are
\* applied, the sprite is memoized and returned.
FinishComposite ==
    /\ Resolving
    /\ Top.idx > Len(CallList(sprite_defs[Top.name]))
    /\ Complete(Top.name, Build(Top))
    /\ UNCHANGED <<sprite_defs, palette, only, loopIdx, prevStatus>>
    /\ UNCHANGED <<stackVars, pixelVars>>

\* -------------------------------------------------- the specs rendered

CfgOn == [bool |-> TRUE, on |-> TRUE, style |-> <<>>, offset |-> <<>>]

CfgMap(style, offset) == [bool |-> FALSE, on |-> FALSE, style |-> style, offset |-> offset]

BlockDef(text) == [NoDefn EXCEPT !.block = Some(text)]

StripDef(frames) == [NoDefn EXCEPT !.type = Some("strip"), !.frames = Some(frames)]

GridDef(sprites) == [NoDefn EXCEPT !.type = Some("grid"), !.sprites = Some(sprites)]

TileMapDef(tileset, grid) ==
    [NoDefn EXCEPT !.type = Some("tilemap"), !.tileset = Some(tileset), !.grid = Some(grid)]

LayersDef(entries) == [NoDefn EXCEPT !.type = Some("layers"), !.layers = Some(entries)]

Entry(key, ref) == [key |-> key, ref |-> ref]

\* The definitions a spec may give each of its three names.  "a" is a
\* composite over "b" and "c", well-formed or malformed in each of the ways
\* its type allows; "b" a block or a composite over "c"; "c" a block, good or
\* bad, or a strip.  References may point back, to themselves or nowhere.
DefsOfA ==
    { BlockDef(<< <<"K">> >>),
      [NoDefn EXCEPT !.type = Some("strip")],
      StripDef(<<"b", "c">>),
      StripDef(<<"a">>),
      StripDef(<<Undefined>>),
      [NoDefn EXCEPT !.type = Some("grid")],
      [GridDef(<<Entry("p", "b"), Entry("q", "c")>>) EXCEPT
          !.columns = Some(1), !.padding = Some(1)],
      [NoDefn EXCEPT !.type = Some("tilemap"), !.grid = Some(<< <<"g">> >>)],
      TileMapDef(<<Entry("g", "b"), Entry("w", "c")>>, << <<"g", "w">>, <<"w", "g">> >>),
      TileMapDef(<<Entry("g", "b")>>, << <<"g", "t">> >>),
      [NoDefn EXCEPT !.type = Some("layers")],
      LayersDef(<<LayerStr("b"), LayerStr("c")>>),
      [LayersDef(<<LayerMap(Some("b"), Some("bottom"), <<>>, <<>>),
                   LayerMap(Some("b"), <<>>, Some(50), Some("multiply"))>>)
          EXCEPT !.outline = Some(CfgOn)],
      LayersDef(<<LayerMap(<<>>, Some("q"), <<>>, <<>>)>>),
      LayersDef(<<LayerMap(Some("c"), <<>>, <<>>, Some("bogus"))>>),
      [LayersDef(<<LayerStr("c")>>) EXCEPT !.width = Some(3)] }

DefsOfB ==
    { BlockDef(<< <<"K">> >>),
      NoDefn,
      StripDef(<<>>),
      StripDef(<<"c">>),
      StripDef(<<"a">>),
      StripDef(<<"c", Undefined>>),
      [GridDef(<<Entry("p", "c")>>) EXCEPT !.columns = Some(0)],
      LayersDef(<<LayerStr("c")>>) }

DefsOfC ==
    { BlockDef(<< <<"K">> >>),
      [BlockDef(<< <<>>, <<"K", ".">>, <<>> >>) EXCEPT
          !.type = Some("block"), !.outline = Some(CfgOn),
          !.shadow = Some(CfgMap(<<>>, Some(<<-1, 2>>)))],
      BlockDef(<< <<>> >>),
      BlockDef(<< <<"x">> >>),
      BlockDef(<< <<"K">>, <<"K", "K">> >>),
      [BlockDef(<< <<"K">> >>) EXCEPT !.type = Some("bogus")],
      StripDef(<<"c">>) }

\* The values of `only` a caller passes.
OnlyArgs ==
    {Absent} \cup {Some(S) : S \in {{}, {"a"}, {"b"}, {"c"}, {"b", "c"}, {"a", Undefined}}}

\* --------------------------------------------------------------- Init

\* A Spec just constructed, no render call made; an empty 1 x 1 LayerStack.
Init ==
    /\ sprite_defs \in {[a |-> da, b |-> db, c |-> dc] :
                           da \in DefsOfA, db \in DefsOfB, dc \in DefsOfC}
    /\ palette = [ch \in {".", "K"} |-> IF ch = "." THEN TRANSPARENT ELSE BLACK]
    /\ only = Absent
    /\ results = <<>>
    /\ loopIdx = 1
    /\ stack = <<>>
    /\ status = "idle"
    /\ raised = NoRaise
    /\ returned = Absent
    /\ rendered = [n \in DefNames \cup {Undefined} |-> 0]
    /\ prevStatus = "idle"
    /\ width = 1
    /\ height = 1
    /\ layers = <<>>
    /\ call = [op |-> "init", names |-> <<>>]
    /\ exc = "none"
    /\ flat = <<>>
    /\ heap = NoObjects
    /\ callerGrid = 0
    /\ self = 0
    /\ op = NoCall
    /\ out = NoOutcome
    /\ NoValues

\* One step of a running render call.
RenderStep ==
    \/ RenderSkip
    \/ RenderSelect
    \/ RenderReturn
    \/ EnsureMemoHit
    \/ EnsureUndefined
    \/ EnsureMalformed
    \/ EnsureBlock
    \/ EnsureComposite
    \/ ResolveRef
    \/ FinishComposite

NextRender == (\E o \in OnlyArgs : RenderCall(o)) \/ RenderStep

SpecRender == Init /\ [][NextRender]_vars

\* The first call on the Spec.
FirstRenderCall(o) == status = "idle" /\ RenderCall(o)

NextFirstRender == (\E o \in OnlyArgs : FirstRenderCall(o)) \/ RenderStep

\* One render call on a new Spec.  A call, once made, runs on: the
\* interpreter does not stop by itself.
SpecRenderFair == Init /\ [][NextFirstRender]_vars /\ WF_vars(RenderStep)

\* ------------------------------------------------- the reference graph

\* The names the definition of n references, none when n is not defined or
\* its definition has no reference list.
RefsOf(n) ==
    IF n \notin DOMAIN sprite_defs THEN {}
    ELSE IF TypeOf(sprite_defs[n]) \notin CompositeTypes THEN {}
    ELSE IF MissingField(sprite_defs[n]) THEN {}
    ELSE LET cl == CallList(sprite_defs[n]) IN
         {Get(cl[i]) : i \in {j \in 1..Len(cl) : Has(cl[j])}}

RECURSIVE ReachFrom(_, _)
\* S with every name referenced from it, directly or transitively.
ReachFrom(S, k) ==
    IF k = 0 THEN S
    ELSE ReachFrom(S \cup UNION {RefsOf(n) : n \in S}, k - 1)

Closure(S) == ReachFrom(S, Cardinality(DefNames) + 1)

Acyclic == \A n \in DefNames : n \notin Closure(RefsOf(n))

\* The definitions the for-loop of render selects.
Selected == {n \in DefNames : ~Skipped(n)}

\* Two activations of one name are on the stack: resolution has come back to
\* a name it is still resolving.
OnCycle ==
    /\ status = "running"
    /\ \E i \in 1..Len(stack) : \E j \in 1..Len(stack) :
          i < j /\ stack[i].name = stack[j].name

\* ------------------------------------------ render on a Spec never used

RECURSIVE Denote(_, _)
RECURSIVE Walk(_, _)

\* The outcome of _ensure_rendered(name, {}) at the given depth of calls,
\* read off the definitions alone: no results dict, no stack.
Denote(name, depth) ==
    IF name \notin DOMAIN sprite_defs THEN Raise("SpecError")
    ELSE LET defn == sprite_defs[name] IN
         IF TypeOf(defn) \notin CompositeTypes \cup {"block"} THEN Raise("SpecError")
         ELSE IF MissingField(defn) THEN Raise("SpecError")
         ELSE LET built == IF TypeOf(defn) = "block"
                           THEN CanvasRenderBlock(palette, Get(defn.block))
                           ELSE Walk(NewFrame(name), depth)
              IN IF built.exc # "none" THEN built
                 ELSE ApplyEffects(built.sprite, defn)

\* The references of a composite from frame.idx on, then its rendering.
Walk(frame, depth) ==
    LET cl == CallList(sprite_defs[frame.name]) IN
    IF frame.idx > Len(cl) THEN Build(frame)
    ELSE IF ~Has(cl[frame.idx]) THEN Raise("KeyError")
    ELSE IF depth >= MaxDepth THEN Raise("RecursionError")
    ELSE LET r == Denote(Get(cl[frame.idx]), depth + 1) IN
         IF r.exc # "none" THEN r
         ELSE LET f == Resume(frame, r.sprite) IN
              IF f.exc # "none" THEN Raise(f.exc) ELSE Walk(f.frame, depth)

\* The exception render raises on a Spec never used before, "none" when it
\* returns: that of the first selected name, in order, that fails.
FreshExc ==
    LET failing == {i \in 1..Len(DefOrder) :
                      DefOrder[i] \in Selected /\ Denote(DefOrder[i], 1).exc # "none"}
    IN IF failing = {} THEN "none"
       ELSE Denote(DefOrder[CHOOSE i \in failing : \A j \in failing : i <= j], 1).exc

\* The mapping that render returns, as a set of entries.
FreshEntries ==
    {[name |-> n, sprite |-> Denote(n, 1).sprite] : n \in Closure(Selected)}

\* ======================================================== the LayerStack

\* The layer names, sprites, opacities, blend modes and positions the
\* callers pass.
LNames == {"a", "b"}

Dot == CanvasRender([k \in {"K"} |-> BLACK], << <<"K">> >>).sprite

Wide == CanvasRender([k \in {"K"} |-> BLACK], << <<"K", "K">> >>).sprite

SpriteArgs == {Dot, Wide}

OpacityArgs == {OpacityOne, 150}

BlendArgs == {"normal", "multiply"}

PositionArgs == {Absent, Some(0)}

\* The lists of names handed to reorder.
RECURSIVE SeqsUpTo(_, _)
SeqsUpTo(S, n) ==
    IF n = 0 THEN {<<>>}
    ELSE LET shorter == SeqsUpTo(S, n - 1) IN
         shorter \cup {Append(q, x) : q \in shorter, x \in S}

ReorderArgs == SeqsUpTo(LNames, MaxReorderLen)

\* A LayerStack(1, 1) just constructed, beside a Spec that is not rendered.
InitLayers ==
    /\ sprite_defs = [n \in DefNames |-> BlockDef(<< <<"K">> >>)]
    /\ palette = [ch \in {".", "K"} |-> IF ch = "." THEN TRANSPARENT ELSE BLACK]
    /\ only = Absent
    /\ results = <<>>
    /\ loopIdx = 1
    /\ stack = <<>>
    /\ status = "idle"
    /\ raised = NoRaise
    /\ returned = Absent
    /\ rendered = [n \in DefNames \cup {Undefined} |-> 0]
    /\ prevStatus = "idle"
    /\ width = 1
    /\ height = 1
    /\ layers = <<>>
    /\ call = [op |-> "init", names |-> <<>>]
    /\ exc = "none"
    /\ flat = <<>>
    /\ heap = NoObjects
    /\ callerGrid = 0
    /\ self = 0
    /\ op = NoCall
    /\ out = NoOutcome
    /\ NoValues

\* The index of the first layer called name, as the loops of remove_layer
\* and get_layer find it.
FirstIndex(ls, name) ==
    CHOOSE i \in 1..Len(ls) : ls[i].name = name /\ \A j \in 1..(i - 1) : ls[j].name # name

\* list.pop(i), the list that is left.
PopAt(seq, i) == SubSeq(seq, 1, i - 1) \o SubSeq(seq, i + 1, Len(seq))

\* reorder's `set(names) != {layer.name for layer in self._layers}`
ReorderRejects(ls, names) ==
    {names[i] : i \in 1..Len(names)} # {ls[i].name : i \in 1..Len(ls)}

\* reorder's by_name: a later layer of a name replaces an earlier one.
ByName(ls, name) ==
    ls[CHOOSE i \in 1..Len(ls) : ls[i].name = name /\ \A j \in (i + 1)..Len(ls) : ls[j].name # name]

\* stack.add_layer(name, sprite, opacity, blend_mode, position)
AddLayer(name, sprite, opacity, blend_mode, position) ==
    LET r == AddLayerOutcome(layers, width, height, name, sprite, opacity,
                             blend_mode, position)
    IN /\ layers' = r.layers
       /\ exc' = r.exc
       /\ call' = [op |-> "add_layer", names |-> <<name>>]
       /\ UNCHANGED <<width, height>>
       /\ UNCHANGED <<specVars, pixelVars>>

\* stack.remove_layer(name): the first layer of that name is popped.
RemoveLayer(name) ==
    /\ IF HasLayer(layers, name)
       THEN layers' = PopAt(layers, FirstIndex(layers, name)) /\ exc' = "none"
       ELSE layers' = layers /\ exc' = "KeyError"
    /\ call' = [op |-> "remove_layer", names |-> <<name>>]
    /\ UNCHANGED <<width, height>>
    /\ UNCHANGED <<specVars, pixelVars>>

\* stack.get_layer(name): the layer, or KeyError; the stack is not touched.
GetLayer(name) ==
    /\ layers' = layers
    /\ exc' = IF HasLayer(layers, name) THEN "none" ELSE "KeyError"
    /\ call' = [op |-> "get_layer", names |-> <<name>>]
    /\ UNCHANGED <<width, height>>
    /\ UNCHANGED <<specVars, pixelVars>>

\* stack.reorder(names)
Reorder(names) ==
    /\ IF ReorderRejects(layers, names)
       THEN layers' = layers /\ exc' = "ValueError"
       ELSE /\ layers' = [i \in 1..Len(names) |-> ByName(layers, names[i])]
            /\ exc' = "none"
    /\ call' = [op |-> "reorder", names |-> names]
    /\ UNCHANGED <<width, height>>
    /\ UNCHANGED <<specVars, pixelVars>>

\* get_layer(name).<field> = value.  The entries of one name are one Layer
\* object (add_layer admits no second layer of a name; reorder repeats the
\* object it found), so the assignment shows at every entry of that name.
Assigned(ls, name, field, value) ==
    [i \in 1..Len(ls) |->
        IF ls[i].name = name THEN [ls[i] EXCEPT ![field] = value] ELSE ls[i]]

\* The body of a setter: KeyError from get_layer when there is no such layer.
SetField(name, field, value) ==
    /\ IF HasLayer(layers, name)
       THEN layers' = Assigned(layers, name, field, value) /\ exc' = "none"
       ELSE layers' = layers /\ exc' = "KeyError"
    /\ UNCHANGED <<width, height>>
    /\ UNCHANGED <<specVars, pixelVars>>

\* stack.set_visibility(name, visible)
SetVisibility(name, visible) ==
    /\ call' = [op |-> "set_visibility", names |-> <<name>>]
    /\ SetField(name, "visible", visible)

\* stack.set_opacity(name, opacity)
SetOpacity(name, opacity) ==
    /\ call' = [op |-> "set_opacity", names |-> <<name>>]
    /\ SetField(name, "opacity", opacity)

\* stack.set_blend_mode(name, mode)
SetBlendMode(name, mode) ==
    /\ call' = [op |-> "set_blend_mode", names |-> <<name>>]
    /\ SetField(name, "blend_mode", mode)

NextLayers ==
    \/ \E name \in LNames, sprite \in SpriteArgs, opacity \in OpacityArgs,
          blend_mode \in BlendArgs, position \in PositionArgs :
          AddLayer(name, sprite, opacity, blend_mode, position)
    \/ \E name \in LNames : RemoveLayer(name)
    \/ \E name \in LNames : GetLayer(name)
    \/ \E names \in ReorderArgs : Reorder(names)
    \/ \E name \in LNames, visible \in BOOLEAN : SetVisibility(name, visible)
    \/ \E name \in LNames, opacity \in OpacityArgs : SetOpacity(name, opacity)
    \/ \E name \in LNames, mode \in BlendArgs : SetBlendMode(name, mode)

SpecLayers == InitLayers /\ [][NextLayers]_vars

\* ===================================================== LayerStack.flatten

\* Sprite(pixels) for a grid of equal, non-empty rows.
SpriteOf(pixels) ==
    MkSprite(Len(pixels[1]), Len(pixels), "pixels", NoDefn, <<>>, pixels)

\* A half-transparent black and a nearly transparent red.
Shade == <<0, 0, 0, 128>>

Faint == <<255, 0, 0, 1>>

\* The layers of the stacks flattened: a 1 x 1 sprite of one of four colors,
\* an opacity of 0, 0.5 or 1, shown or hidden, in any blend mode.
FlatColors == {TRANSPARENT, WHITE, Shade, Faint}

FlatOpacities == {0, 50, OpacityOne}

FlatLayers(name) ==
    {[MkLayer(name, SpriteOf(<< <<c>> >>), o, m) EXCEPT !.visible = v] :
        c \in FlatColors, o \in FlatOpacities, m \in BlendModes, v \in BOOLEAN}

FlatStacks ==
    {<<>>} \cup {<<la>> : la \in FlatLayers("a")}
           \cup {<<la, lb>> : la \in FlatLayers("a"), lb \in FlatLayers("b")}

\* A LayerStack(1, 1) holding up to two layers, not yet flattened.
InitFlatten ==
    /\ sprite_defs = [n \in DefNames |-> BlockDef(<< <<"K">> >>)]
    /\ palette = [ch \in {".", "K"} |-> IF ch = "." THEN TRANSPARENT ELSE BLACK]
    /\ only = Absent
    /\ results = <<>>
    /\ loopIdx = 1
    /\ stack = <<>>
    /\ status = "idle"
    /\ raised = NoRaise
    /\ returned = Absent
    /\ rendered = [n \in DefNames \cup {Undefined} |-> 0]
    /\ prevStatus = "idle"
    /\ width = 1
    /\ height = 1
    /\ layers \in FlatStacks
    /\ call = [op |-> "init", names |-> <<>>]
    /\ exc = "none"
    /\ flat = <<>>
    /\ heap = NoObjects
    /\ callerGrid = 0
    /\ self = 0
    /\ op = NoCall
    /\ out = NoOutcome
    /\ NoValues

\* stack.flatten()
Flatten ==
    LET f == FlattenOutcome(width, height, layers) IN
    /\ flat' = IF f.exc = "none" THEN Some(f.grid) ELSE Absent
    /\ exc' = f.exc
    /\ call' = [op |-> "flatten", names |-> <<>>]
    /\ UNCHANGED <<width, height, layers, heap, callerGrid, self, op, out, valueVars>>
    /\ UNCHANGED specVars

NextFlatten == Flatten

SpecFlatten == InitFlatten /\ [][NextFlatten]_vars

\* ================================================================ Sprite

\* A pixel grid is the sequence of its rows, a row the sequence of its
\* colors; pixel (x, y) of the code is g[y + 1][x + 1].
GridW(g) == Len(g[1])

GridH(g) == Len(g)

\* The outcome of a Sprite method: the exception, or the pixel grid of the
\* sprite returned.
Made(pixels) == [exc |-> "none", pixels |-> pixels]

Failed(kind) == [exc |-> kind, pixels |-> <<>>]

\* Sprite.empty(w, h): Sprite(...) refuses a grid without a pixel.
EmptyOutcome(w, h) ==
    IF w < 1 \/ h < 1 THEN Failed("ValueError")
    ELSE Made([y \in 1..h |-> [x \in 1..w |-> TRANSPARENT]])

\* Sprite.crop(x, y, w, h)
CropOutcome(g, x, y, w, h) ==
    LET x0 == Max2(0, x)
        y0 == Max2(0, y)
        w1 == Min2(w, GridW(g) - x0)
        h1 == Min2(h, GridH(g) - y0)
    IN IF w1 <= 0 \/ h1 <= 0 THEN Failed("ValueError")
       ELSE Made([r \in 1..h1 |-> SubSeq(g[y0 + r], x0 + 1, x0 + w1)])

\* The branch of paste for a source pixel with 0 < alpha < 255: the colors
\* it can store over dst.  sa = src alpha / 255, out_a = D / (255 * 255).
\* Over a dst of alpha 0 out_a is sa itself, and (a / 255.0) * 255 gives a
\* back for each a in 1..254.
PasteBlendChoices(src, dst) ==
    LET SA == src[4]
        W  == 255 - SA
        D  == 255 * SA + dst[4] * W
        N(i) == 255 * src[i] * SA + dst[i] * dst[4] * W
    IN IF D = 0 THEN {TRANSPARENT}
       ELSE {<<r, gg, b, a>> :
                r  \in FloatInt(N(1), D, FALSE),
                gg \in FloatInt(N(2), D, FALSE),
                b  \in FloatInt(N(3), D, FALSE),
                a  \in FloatInt(D, 255, dst[4] = 0)}

\* paste that skips an opaque source pixel as it does a fully transparent
\* one, instead of assigning it.
PastePixelSkipsOpaque(g, other, x, y, tx, ty) ==
    LET sx  == tx - x
        sy  == ty - y
        dst == g[ty + 1][tx + 1]
    IN IF sx < 0 \/ sx >= GridW(other) \/ sy < 0 \/ sy >= GridH(other) THEN {dst}
       ELSE LET src == other[sy + 1][sx + 1] IN
            IF src[4] = 0 \/ src[4] = 255 THEN {dst} ELSE PasteBlendChoices(src, dst)

\* paste that assigns a fully transparent source pixel as it does an opaque
\* one, instead of skipping it.
PastePixelAssignsClear(g, other, x, y, tx, ty) ==
    LET sx  == tx - x
        sy  == ty - y
        dst == g[ty + 1][tx + 1]
    IN IF sx < 0 \/ sx >= GridW(other) \/ sy < 0 \/ sy >= GridH(other) THEN {dst}
       ELSE LET src == other[sy + 1][sx + 1] IN
            IF src[4] = 0 \/ src[4] = 255 THEN {src} ELSE PasteBlendChoices(src, dst)

\* The colors pixel (tx, ty) of g.paste(other, x, y) can hold: the receiver's
\* pixel where other does not reach or is fully transparent, other's pixel
\* where that is opaque, a blend otherwise.
PastePixelChoices(g, other, x, y, tx, ty) ==
    LET sx  == tx - x
        sy  == ty - y
        dst == g[ty + 1][tx + 1]
    IN IF sx < 0 \/ sx >= GridW(other) \/ sy < 0 \/ sy >= GridH(other) THEN {dst}
       ELSE LET src == other[sy + 1][sx + 1] IN
            IF src[4] = 0 THEN {dst}
            ELSE IF src[4] = 255 THEN {src}
            ELSE PasteBlendChoices(src, dst)

RECURSIVE RowsFrom(_)
\* The rows that take each color from the set at its place.
RowsFrom(sets) ==
    IF sets = <<>> THEN {<<>>}
    ELSE {<<c>> \o rest : c \in Head(sets), rest \in RowsFrom(Tail(sets))}

\* The grids g.paste(other, x, y) can produce.
PasteChoices(g, other, x, y) ==
    RowsFrom([ty \in 1..GridH(g) |->
                 RowsFrom([tx \in 1..GridW(g) |->
                              PastePixelChoices(g, other, x, y, tx - 1, ty - 1)])])

\* row[::-1]
Reversed(seq) == [i \in 1..Len(seq) |-> seq[Len(seq) + 1 - i]]

\* Sprite.flip_h()
FlipH(g) == [y \in 1..GridH(g) |-> Reversed(g[y])]

\* Sprite.flip_v()
FlipV(g) == Reversed(g)

\* Sprite.replace_color(old, new)
ReplaceColor(g, old, new) ==
    [y \in 1..GridH(g) |-> [x \in 1..GridW(g) |-> IF g[y][x] = old THEN new ELSE g[y][x]]]

\* Sprite.opaque_bounds(): <<>> for None, else <<(x, y, w, h)>>.
OpaqueBounds(g) ==
    LET xs == {x \in 0..(GridW(g) - 1) : \E y \in 1..GridH(g) : g[y][x + 1][4] > 0}
        ys == {y \in 0..(GridH(g) - 1) : \E x \in 1..GridW(g) : g[y + 1][x][4] > 0}
        lo(S) == CHOOSE a \in S : \A b \in S : a <= b
        hi(S) == CHOOSE a \in S : \A b \in S : a >= b
    IN IF xs = {} THEN Absent
       ELSE Some(<<lo(xs), lo(ys), hi(xs) - lo(xs) + 1, hi(ys) - lo(ys) + 1>>)

\* trim that cuts to the opaque columns and keeps every row.
TrimColumnsOnly(g) ==
    LET bounds == OpaqueBounds(g) IN
    IF ~Has(bounds) THEN EmptyOutcome(1, 1)
    ELSE CropOutcome(g, Get(bounds)[1], 0, Get(bounds)[3], GridH(g))

\* Sprite.trim()
TrimOutcome(g) ==
    LET bounds == OpaqueBounds(g) IN
    IF ~Has(bounds) THEN EmptyOutcome(1, 1)
    ELSE CropOutcome(g, Get(bounds)[1], Get(bounds)[2], Get(bounds)[3], Get(bounds)[4])

\* ------------------------------------------------------- Sprite's storage

\* The pixel grid the list of rows g holds.
Pixels(h, g) == [j \in 1..Len(h.grids[g]) |-> h.rows[h.grids[g][j]]]

\* The list made last.
Newest(h) == Len(h.grids)

\* A list comprehension whose elements are lists made on the spot (row[:],
\* a slice, row[::-1], [c] * w): a new list of new rows holding `contents`.
NewGrid(h, contents) ==
    [rows  |-> h.rows \o contents,
     grids |-> Append(h.grids, [j \in 1..Len(contents) |-> Len(h.rows) + j])]

\* Sprite.__init__ that keeps the list it is given, whatever _skip_copy says.
SpriteInitSharing(h, skip_copy) == h

\* Sprite.__init__(pixels, _skip_copy) for the list made last: the list the
\* new Sprite keeps as _pixels is the newest one afterwards.
SpriteInit(h, skip_copy) ==
    IF skip_copy THEN h ELSE NewGrid(h, Pixels(h, Newest(h)))

\* `pixels[ty][tx] = ...` for every pixel of the list of rows g: its rows,
\* whoever else holds them, now hold `contents`.
WriteGrid(h, g, contents) ==
    [h EXCEPT !.rows = [i \in 1..Len(h.rows) |->
        IF \E j \in 1..Len(h.grids[g]) : h.grids[g][j] = i
        THEN contents[CHOOSE j \in 1..Len(h.grids[g]) : h.grids[g][j] = i]
        ELSE h.rows[i]]]

\* The lists a call starts from: the caller's grid and the receiver's;
\* whatever earlier calls made is no longer referred to.
Live ==
    [rows  |-> SubSeq(heap.rows, 1, heap.grids[self][Len(heap.grids[self])]),
     grids |-> SubSeq(heap.grids, 1, self)]

\* The rows and the list of rows that the Sprite with _pixels g holds.
Storage(h, g) ==
    {<<"grid", g>>} \cup {<<"row", h.grids[g][j]>> : j \in 1..Len(h.grids[g])}

SelfPixels == Pixels(heap, self)

OutPixels == Pixels(heap, out.pixels)

ArgPixels == Pixels(heap, op.arg)

\* ------------------------------------------------------- Sprite's methods

\* The colors of the sprites: opaque ones, fully transparent, and two
\* semi-transparent ones.
Glow == <<11, 15, 22, 3>>

SelfColors == {TRANSPARENT, BLACK, Glow}

OtherColors == {TRANSPARENT, WHITE, Shade, Glow}

\* The grids of w x h pixels over a set of colors.
GridsOver(colors, w, h) == [1..h -> [1..w -> colors]]

\* The receivers: up to three pixels wide and two high.
SelfGrids ==
    GridsOver(SelfColors, 1, 1) \cup GridsOver(SelfColors, 2, 1)
        \cup GridsOver(SelfColors, 3, 1) \cup GridsOver(SelfColors, 1, 2)
        \cup GridsOver({TRANSPARENT, BLACK}, 2, 2)

\* The sprites pasted.
OtherGrids == GridsOver(OtherColors, 1, 1) \cup GridsOver(OtherColors, 2, 1)

PasteXs == (0 - 2)..2

PasteYs == (0 - 1)..1

CropXs == (0 - 2)..3

CropYs == (0 - 1)..1

CropWs == 0..3

CropHs == 0..2

\* A Sprite built from a grid of the caller's, no method called yet.
InitSprite ==
    /\ sprite_defs = [n \in DefNames |-> BlockDef(<< <<"K">> >>)]
    /\ palette = [ch \in {".", "K"} |-> IF ch = "." THEN TRANSPARENT ELSE BLACK]
    /\ only = Absent
    /\ results = <<>>
    /\ loopIdx = 1
    /\ stack = <<>>
    /\ status = "idle"
    /\ raised = NoRaise
    /\ returned = Absent
    /\ rendered = [n \in DefNames \cup {Undefined} |-> 0]
    /\ prevStatus = "idle"
    /\ width = 1
    /\ height = 1
    /\ layers = <<>>
    /\ call = [op |-> "init", names |-> <<>>]
    /\ exc = "none"
    /\ flat = <<>>
    /\ \E g \in SelfGrids : heap = SpriteInit(NewGrid(NoObjects, g), FALSE)
    /\ callerGrid = 1
    /\ self = Newest(heap)
    /\ op = NoCall
    /\ out = NoOutcome
    /\ NoValues

\* One thing happens to each Sprite built, a method call or a write of the
\* caller's: whatever a call made is dropped before the next one, which
\* would start from these same lists.
NotCalled == op.name = "init"

\* What every Sprite method leaves alone.
SpriteFrame == UNCHANGED <<specVars, stackVars, flat, callerGrid, self, valueVars>>

\* The end of a method that computed outcome o from the lists h: a failed
\* one raises, the others end in `return Sprite(pixels, _skip_copy=True)`
\* for a list of rows made by a comprehension.
Return(h, o) ==
    IF o.exc = "none"
    THEN /\ heap' = SpriteInit(NewGrid(h, o.pixels), TRUE)
         /\ out' = [exc |-> "none", pixels |-> Newest(heap')]
    ELSE /\ heap' = h
         /\ out' = [exc |-> o.exc, pixels |-> 0]

\* self.crop(x, y, w, h)
Crop(x, y, w, h) ==
    /\ NotCalled
    /\ op' = [NoCall EXCEPT !.name = "crop", !.x = x, !.y = y, !.w = w, !.h = h]
    /\ Return(Live, CropOutcome(Pixels(Live, self), x, y, w, h))
    /\ SpriteFrame

\* self.paste(other, x, y): the rows of self are copied, the copies are
\* written to, and the new Sprite keeps them.
Paste(other, x, y) ==
    LET h1 == SpriteInit(NewGrid(Live, other), FALSE)
        h2 == NewGrid(h1, Pixels(h1, self))
    IN /\ NotCalled
       /\ op' = [NoCall EXCEPT !.name = "paste", !.arg = Newest(h1), !.given = other,
                                !.x = x, !.y = y]
       /\ \E result \in PasteChoices(Pixels(h2, Newest(h2)), Pixels(h2, Newest(h1)), x, y) :
             heap' = SpriteInit(WriteGrid(h2, Newest(h2), result), TRUE)
       /\ out' = [exc |-> "none", pixels |-> Newest(heap')]
       /\ SpriteFrame

\* self.flip_h()
FlipHCall ==
    /\ NotCalled
    /\ op' = [NoCall EXCEPT !.name = "flip_h"]
    /\ Return(Live, Made(FlipH(Pixels(Live, self))))
    /\ SpriteFrame

\* self.flip_v()
FlipVCall ==
    /\ NotCalled
    /\ op' = [NoCall EXCEPT !.name = "flip_v"]
    /\ Return(Live, Made(FlipV(Pixels(Live, self))))
    /\ SpriteFrame

\* self.replace_color(old, new)
ReplaceColorCall(old, new) ==
    /\ NotCalled
    /\ op' = [NoCall EXCEPT !.name = "replace_color", !.old = old, !.new = new]
    /\ Return(Live, Made(ReplaceColor(Pixels(Live, self), old, new)))
    /\ SpriteFrame

\* self.trim()
Trim ==
    /\ NotCalled
    /\ op' = [NoCall EXCEPT !.name = "trim"]
    /\ Return(Live, TrimOutcome(Pixels(Live, self)))
    /\ SpriteFrame

\* The caller assigns to a pixel of the grid it built the Sprite from.
CallerWrites(x, y, color) ==
    /\ NotCalled
    /\ y < Len(heap.grids[callerGrid])
    /\ x < Len(heap.rows[heap.grids[callerGrid][y + 1]])
    /\ heap.rows[heap.grids[callerGrid][y + 1]][x + 1] # color
    /\ heap' = [heap EXCEPT !.rows[heap.grids[callerGrid][y + 1]][x + 1] = color]
    /\ op' = [NoCall EXCEPT !.name = "write", !.x = x, !.y = y, !.new = color]
    /\ UNCHANGED out
    /\ SpriteFrame

NextSprite ==
    \/ \E x \in CropXs, y \in CropYs, w \in CropWs, h \in CropHs : Crop(x, y, w, h)
    \/ \E other \in OtherGrids, x \in PasteXs, y \in PasteYs : Paste(other, x, y)
    \/ FlipHCall
    \/ FlipVCall
    \/ \E old \in SelfColors, new \in {TRANSPARENT, WHITE} : ReplaceColorCall(old, new)
    \/ Trim
    \/ \E x \in 0..2, y \in 0..1, color \in {TRANSPARENT, WHITE} : CallerWrites(x, y, color)

SpecSprite == InitSprite /\ [][NextSprite]_vars

\* ========================================================== StringCanvas

\* A Palette is its _map in insertion order: <<[key, color]>>, the keys
\* pairwise distinct as those of a dict are.
PaletteKeys(pairs) == {pairs[i].key : i \in 1..Len(pairs)}

\* Palette.__getitem__ as a function of the key.
PaletteMap(pairs) ==
    [k \in PaletteKeys(pairs) |->
        pairs[CHOOSE i \in 1..Len(pairs) : pairs[i].key = k].color]

\* Palette.reverse_lookup(color): the first key that maps to the color.
ReverseLookup(pairs, color) ==
    LET hits == {i \in 1..Len(pairs) : pairs[i].color = color} IN
    IF hits = {} THEN Absent
    ELSE Some(pairs[CHOOSE i \in hits : \A j \in hits : i <= j].key)

\* StringCanvas.to_string(sprite, palette) for a pixel grid: its rows of
\* characters, or KeyError for a color without a key.
ToStringOutcome(pix, pairs) ==
    IF \E y \in 1..Len(pix) : \E x \in 1..Len(pix[y]) : ~Has(ReverseLookup(pairs, pix[y][x]))
    THEN [exc |-> "KeyError", rows |-> <<>>]
    ELSE [exc |-> "none",
          rows |-> [y \in 1..Len(pix) |->
                       [x \in 1..Len(pix[y]) |-> Get(ReverseLookup(pairs, pix[y][x]))]]]

\* The characters of the rows, the keys and the colors of the palettes.
CanvasChars == {".", "K", "w"}

CanvasColors == {TRANSPARENT, BLACK}

MaxPaletteLen == 2

MaxRowLen == 2

MaxCanvasRows == 2

\* The sequences over S of the lengths lo..hi.
SeqsBetween(S, lo, hi) == UNION {[1..n -> S] : n \in lo..hi}

CanvasPalettes ==
    {p \in SeqsBetween([key : CanvasChars, color : CanvasColors], 1, MaxPaletteLen) :
        \A i, j \in 1..Len(p) : i # j => p[i].key # p[j].key}

CanvasRowLists ==
    SeqsBetween(SeqsBetween(CanvasChars, 0, MaxRowLen), 0, MaxCanvasRows)

NoStrings == [exc |-> "none", rows |-> <<>>]

\* StringCanvas(palette), and the rows it is about to render.
InitCanvas ==
    /\ sprite_defs = [n \in DefNames |-> BlockDef(<< <<"K">> >>)]
    /\ palette = [ch \in {".", "K"} |-> IF ch = "." THEN TRANSPARENT ELSE BLACK]
    /\ only = Absent
    /\ results = <<>>
    /\ loopIdx = 1
    /\ stack = <<>>
    /\ status = "idle"
    /\ raised = NoRaise
    /\ returned = Absent
    /\ rendered = [n \in DefNames \cup {Undefined} |-> 0]
    /\ prevStatus = "idle"
    /\ width = 1
    /\ height = 1
    /\ layers = <<>>
    /\ call = [op |-> "init", names |-> <<>>]
    /\ exc = "none"
    /\ flat = <<>>
    /\ heap = NoObjects
    /\ callerGrid = 0
    /\ self = 0
    /\ op = NoCall
    /\ out = NoOutcome
    /\ \E p \in CanvasPalettes, rows \in CanvasRowLists :
          canvas = [step |-> "built", palette |-> p, rows |-> rows,
                    out |-> Ok(NoSprite), strings |-> NoStrings]
    /\ tilemap = Unused
    /\ layout = Unused
    /\ fast = Unused
    /\ auto = Unused
    /\ blending = Unused

CanvasFrame ==
    UNCHANGED <<specVars, stackVars, flat, heap, callerGrid, self, op, out,
                tilemap, layout, fast, auto, blending>>

\* sprite = StringCanvas(palette).render(rows)
CanvasRenders ==
    /\ canvas.step = "built"
    /\ canvas' = [canvas EXCEPT !.step = "rendered",
                                !.out = CanvasRender(PaletteMap(canvas.palette), canvas.rows)]
    /\ CanvasFrame

\* StringCanvas.to_string(sprite, palette)
CanvasToString ==
    /\ canvas.step = "rendered"
    /\ canvas.out.exc = "none"
    /\ canvas' = [canvas EXCEPT !.step = "strings",
                                !.strings = ToStringOutcome(canvas.out.sprite.pix, canvas.palette)]
    /\ CanvasFrame

NextCanvas == CanvasRenders \/ CanvasToString

SpecCanvas == InitCanvas /\ [][NextCanvas]_vars

\* ================================================================ TileMap

\* A TileSet is its _tiles in insertion order: <<[key, tile]>>, a tile the
\* pixel grid of its Sprite.
TileKeys(tiles) == {tiles[i].key : i \in 1..Len(tiles)}

\* TileSet.__getitem__
TileOf(tiles, ch) == tiles[CHOOSE i \in 1..Len(tiles) : tiles[i].key = ch].tile

\* TileSet(tiles): at least one tile, each of the size of the first.
TileSetRaises(tiles) ==
    \/ tiles = <<>>
    \/ \E i \in 1..Len(tiles) :
         \/ GridW(tiles[i].tile) # GridW(tiles[1].tile)
         \/ GridH(tiles[i].tile) # GridH(tiles[1].tile)

\* TileMap(tileset, grid) for a list of rows: the exception it raises.
\* Empty rows are dropped; the rows are then checked one after the other,
\* the length of a row before its characters.
TileMapRaises(tiles, grid) ==
    LET rows == SelectSeq(grid, LAMBDA r : r # <<>>)
        bad  == {i \in 1..Len(rows) :
                    \/ Len(rows[i]) # Len(rows[1])
                    \/ \E j \in 1..Len(rows[i]) : rows[i][j] \notin TileKeys(tiles)}
    IN IF rows = <<>> THEN "ValueError"
       ELSE IF bad = {} THEN "none"
       ELSE IF Len(rows[CHOOSE i \in bad : \A j \in bad : i <= j]) # Len(rows[1])
            THEN "ValueError" ELSE "KeyError"

RECURSIVE PasteTiles(_, _, _, _)
\* The grids TileMap.to_sprite can hold in `result` after the first k cells
\* of `rows`, taken row by row, from the grids it can hold before them.
PasteTiles(tiles, rows, start, k) ==
    IF k = 0 THEN start
    ELSE LET cols == Len(rows[1])
             gy   == (k - 1) \div cols
             gx   == (k - 1) % cols
             tile == TileOf(tiles, rows[gy + 1][gx + 1])
         IN UNION {PasteChoices(r, tile, gx * GridW(tile), gy * GridH(tile)) :
                      r \in PasteTiles(tiles, rows, start, k - 1)}

\* TileMap.to_sprite(): the sprites it can return.
ToSpriteChoices(tiles, grid) ==
    LET rows == SelectSeq(grid, LAMBDA r : r # <<>>)
        tw   == GridW(tiles[1].tile)
        th   == GridH(tiles[1].tile)
    IN PasteTiles(tiles, rows,
                  {EmptyOutcome(Len(rows[1]) * tw, Len(rows) * th).pixels},
                  Len(rows) * Len(rows[1]))

\* A nearly transparent red.
Dim == <<11, 0, 0, 3>>

TileColors == {TRANSPARENT, BLACK, Dim}

TileSprites ==
    GridsOver(TileColors, 1, 1) \cup GridsOver(TileColors, 2, 1)
        \cup GridsOver(TileColors, 1, 2)

TileChars == {"g", "w"}

MaxTiles == 2

MaxGridCols == 2

MaxGridRows == 2

TileSets ==
    {t \in SeqsBetween([key : TileChars, tile : TileSprites], 1, MaxTiles) :
        \A i, j \in 1..Len(t) : i # j => t[i].key # t[j].key}

TileGrids ==
    UNION {[1..r -> [1..c -> TileChars]] : r \in 1..MaxGridRows, c \in 1..MaxGridCols}

\* The tiles and the grid a TileMap is about to be built from.
InitTiles ==
    /\ sprite_defs = [n \in DefNames |-> BlockDef(<< <<"K">> >>)]
    /\ palette = [ch \in {".", "K"} |-> IF ch = "." THEN TRANSPARENT ELSE BLACK]
    /\ only = Absent
    /\ results = <<>>
    /\ loopIdx = 1
    /\ stack = <<>>
    /\ status = "idle"
    /\ raised = NoRaise
    /\ returned = Absent
    /\ rendered = [n \in DefNames \cup {Undefined} |-> 0]
    /\ prevStatus = "idle"
    /\ width = 1
    /\ height = 1
    /\ layers = <<>>
    /\ call = [op |-> "init", names |-> <<>>]
    /\ exc = "none"
    /\ flat = <<>>
    /\ heap = NoObjects
    /\ callerGrid = 0
    /\ self = 0
    /\ op = NoCall
    /\ out = NoOutcome
    /\ canvas = Unused
    /\ \E t \in TileSets, g \in TileGrids :
          tilemap = [step |-> "given", tiles |-> t, grid |-> g, exc |-> "none",
                     sprite |-> <<>>]
    /\ layout = Unused
    /\ fast = Unused
    /\ auto = Unused
    /\ blending = Unused

TilesFrame ==
    UNCHANGED <<specVars, stackVars, flat, heap, callerGrid, self, op, out,
                canvas, layout, fast, auto, blending>>

\* TileMap(TileSet(tiles), grid)
TileMapInit ==
    /\ tilemap.step = "given"
    /\ tilemap' = [tilemap EXCEPT
          !.step = "built",
          !.exc  = IF TileSetRaises(tilemap.tiles) THEN "ValueError"
                   ELSE TileMapRaises(tilemap.tiles, tilemap.grid)]
    /\ TilesFrame

\* tilemap.to_sprite()
TileMapToSprite ==
    /\ tilemap.step = "built"
    /\ tilemap.exc = "none"
    /\ \E s \in ToSpriteChoices(tilemap.tiles, tilemap.grid) :
          tilemap' = [tilemap EXCEPT !.step = "drawn", !.sprite = s]
    /\ TilesFrame

NextTiles == TileMapInit \/ TileMapToSprite

SpecTiles == InitTiles /\ [][NextTiles]_vars

\* ========================================================== RegionLayout

\* A Region is [name, x, y, width, height]; RegionLayout._regions is the
\* dict {r.name: r}: of regions of one name the last one stays, at the
\* place of the first.
RegionNames(regions) == {regions[i].name : i \in 1..Len(regions)}

RegionOf(regions, name) ==
    LET hits == {i \in 1..Len(regions) : regions[i].name = name} IN
    regions[CHOOSE i \in hits : \A j \in hits : i >= j]

\* RegionLayout(canvas_size, regions): every region lies within the canvas.
LayoutRaises(w, h, regions) ==
    \E i \in 1..Len(regions) :
        \/ regions[i].x < 0
        \/ regions[i].y < 0
        \/ regions[i].x + regions[i].width > w
        \/ regions[i].y + regions[i].height > h

\* The sprite compose pastes for a part: the part, cropped when it is larger
\* than its region.
PartSource(part, r) ==
    IF GridW(part) > r.width \/ GridH(part) > r.height
    THEN CropOutcome(part, 0, 0, r.width, r.height)
    ELSE Made(part)

RECURSIVE ComposeChoices(_, _, _, _, _)
\* The grids compose can hold in `result` after the first k parts; parts is
\* the dict in insertion order, <<[name, sprite]>>.  No grid is left when a
\* crop raised.
ComposeChoices(w, h, regions, parts, k) ==
    IF k = 0 THEN {EmptyOutcome(w, h).pixels}
    ELSE LET before == ComposeChoices(w, h, regions, parts, k - 1)
             name   == parts[k].name
         IN IF name \notin RegionNames(regions) THEN before
            ELSE LET r   == RegionOf(regions, name)
                     src == PartSource(parts[k].sprite, r)
                 IN IF src.exc # "none" THEN {}
                    ELSE UNION {PasteChoices(g, src.pixels, r.x, r.y) : g \in before}

\* layout.decompose(sprite): the crop of every region, by name.
Decompose(regions, pix) ==
    [n \in RegionNames(regions) |->
        LET r == RegionOf(regions, n) IN CropOutcome(pix, r.x, r.y, r.width, r.height)]

\* The canvas of the layouts, their regions and the parts composed.
LayoutW == 2

LayoutH == 1

RegionChars == {"a", "b"}

PartChars == {"a", "b", "c"}

MaxRegions == 2

MaxParts == 2

Regions ==
    [name : RegionChars, x : 0..1, y : {0}, width : 1..2, height : {1}]

PartSprites ==
    GridsOver({TRANSPARENT, BLACK, Dim}, 1, 1) \cup GridsOver({TRANSPARENT, BLACK}, 2, 1)

RegionLists ==
    {r \in SeqsBetween(Regions, 1, MaxRegions) :
        \A i, j \in 1..Len(r) : i # j => r[i].name # r[j].name}

PartDicts ==
    {p \in SeqsBetween([name : PartChars, sprite : PartSprites], 0, MaxParts) :
        \A i, j \in 1..Len(p) : i # j => p[i].name # p[j].name}

\* The regions a layout is about to be built from, and the parts.
InitLayout ==
    /\ sprite_defs = [n \in DefNames |-> BlockDef(<< <<"K">> >>)]
    /\ palette = [ch \in {".", "K"} |-> IF ch = "." THEN TRANSPARENT ELSE BLACK]
    /\ only = Absent
    /\ results = <<>>
    /\ loopIdx = 1
    /\ stack = <<>>
    /\ status = "idle"
    /\ raised = NoRaise
    /\ returned = Absent
    /\ rendered = [n \in DefNames \cup {Undefined} |-> 0]
    /\ prevStatus = "idle"
    /\ width = 1
    /\ height = 1
    /\ layers = <<>>
    /\ call = [op |-> "init", names |-> <<>>]
    /\ exc = "none"
    /\ flat = <<>>
    /\ heap = NoObjects
    /\ callerGrid = 0
    /\ self = 0
    /\ op = NoCall
    /\ out = NoOutcome
    /\ canvas = Unused
    /\ tilemap = Unused
    /\ \E r \in RegionLists, p \in PartDicts :
          layout = [step |-> "given", regions |-> r, parts |-> p, exc |-> "none",
                    composed |-> <<>>, decomposed |-> <<>>]
    /\ fast = Unused
    /\ auto = Unused
    /\ blending = Unused

LayoutFrame ==
    UNCHANGED <<specVars, stackVars, flat, heap, callerGrid, self, op, out,
                canvas, tilemap, fast, auto, blending>>

\* RegionLayout((LayoutW, LayoutH), regions)
LayoutInit ==
    /\ layout.step = "given"
    /\ layout' = [layout EXCEPT
          !.step = "built",
          !.exc  = IF LayoutRaises(LayoutW, LayoutH, layout.regions)
                   THEN "ValueError" ELSE "none"]
    /\ LayoutFrame

\* composed = layout.compose(parts)
Compose ==
    /\ layout.step = "built"
    /\ layout.exc = "none"
    /\ LET choices == ComposeChoices(LayoutW, LayoutH, layout.regions, layout.parts,
                                     Len(layout.parts))
       IN IF choices = {}
          THEN layout' = [layout EXCEPT !.step = "composed", !.exc = "ValueError"]
          ELSE \E g \in choices :
                  layout' = [layout EXCEPT !.step = "composed", !.composed = g]
    /\ LayoutFrame

\* layout.decompose(composed)
DecomposeCall ==
    /\ layout.step = "composed"
    /\ layout.exc = "none"
    /\ layout' = [layout EXCEPT
          !.step = "decomposed",
          !.decomposed = Decompose(layout.regions, layout.composed)]
    /\ LayoutFrame

NextLayout == LayoutInit \/ Compose \/ DecomposeCall

SpecLayout == InitLayout /\ [][NextLayout]_vars

\* ============================================================ FastSprite

\* A FastSprite is its _data, an array of h rows of w pixels; h or w can
\* be 0.  The outcome of a method is an exception or a value.
Value(v) == [exc |-> "none", value |-> v]

Fails(kind) == [exc |-> kind, value |-> <<>>]

\* The outcome of a Sprite method that returns a sprite.
OfSprite(o) == [exc |-> o.exc, value |-> o.pixels]

\* Sprite.get_pixel(x, y)
GetPixel(g, x, y) ==
    IF ~(0 <= x /\ x < GridW(g) /\ 0 <= y /\ y < GridH(g)) THEN Fails("IndexError")
    ELSE Value(g[y + 1][x + 1])

\* FastSprite.get_pixel(x, y)
FastGetPixel(g, x, y) ==
    IF ~(0 <= x /\ x < GridW(g) /\ 0 <= y /\ y < GridH(g)) THEN Fails("IndexError")
    ELSE Value(g[y + 1][x + 1])

\* FastSprite.empty(w, h): np.zeros refuses a negative dimension and
\* accepts 0.
FastEmpty(w, h) ==
    IF w < 0 \/ h < 0 THEN Fails("ValueError")
    ELSE Value([y \in 1..h |-> [x \in 1..w |-> TRANSPARENT]])

\* FastSprite.crop(x, y, w, h)
FastCrop(g, x, y, w, h) ==
    LET x0 == Max2(0, x)
        y0 == Max2(0, y)
        w1 == Min2(w, GridW(g) - x0)
        h1 == Min2(h, GridH(g) - y0)
    IN IF w1 <= 0 \/ h1 <= 0 THEN Fails("ValueError")
       ELSE Value([r \in 1..h1 |-> SubSeq(g[y0 + r], x0 + 1, x0 + w1)])

\* One pixel of the overlap in FastSprite.paste: every source pixel is
\* blended, with out_a = D / (255 * 255), and the division is by 1 where
\* out_a is 0.  The pixels of this model have alpha 0 or 255, for which sa
\* and da are 0.0 or 1.0 and every float32 operation here is exact.
FastBlend(src, dst) ==
    LET SA == src[4]
        W  == 255 - SA
        D  == 255 * SA + dst[4] * W
        N(i) == 255 * src[i] * SA + dst[i] * dst[4] * W
        rgb(i) == IF D = 0 THEN Trunc(N(i), 255 * 255) ELSE Trunc(N(i), D)
    IN <<rgb(1), rgb(2), rgb(3), Trunc(D, 255)>>

\* FastSprite.paste(other, x, y)
FastPaste(g, other, x, y) ==
    LET sx_start == Max2(0, 0 - x)
        sy_start == Max2(0, 0 - y)
        sx_end   == Min2(GridW(other), GridW(g) - x)
        sy_end   == Min2(GridH(other), GridH(g) - y)
    IN IF sx_start >= sx_end \/ sy_start >= sy_end THEN Value(g)
       ELSE Value([ty \in 1..GridH(g) |-> [tx \in 1..GridW(g) |->
                LET sx == tx - 1 - x
                    sy == ty - 1 - y
                IN IF sx >= sx_start /\ sx < sx_end /\ sy >= sy_start /\ sy < sy_end
                   THEN FastBlend(other[sy + 1][sx + 1], g[ty][tx])
                   ELSE g[ty][tx]]])

\* FastSprite.flip_h()
FastFlipH(g) == Value([y \in 1..GridH(g) |-> [x \in 1..GridW(g) |-> g[y][GridW(g) + 1 - x]]])

\* FastSprite.flip_v()
FastFlipV(g) == Value([y \in 1..GridH(g) |-> g[GridH(g) + 1 - y]])

\* FastSprite.replace_color(old, new)
FastReplaceColor(g, old, new) ==
    Value([y \in 1..GridH(g) |-> [x \in 1..GridW(g) |->
              IF \A i \in 1..4 : g[y][x][i] = old[i] THEN new ELSE g[y][x]]])

\* FastSprite.opaque_bounds(): np.argmax gives the first True.
FastOpaqueBounds(g) ==
    LET rows == [y \in 1..GridH(g) |-> \E x \in 1..GridW(g) : g[y][x][4] > 0]
        cols == [x \in 1..GridW(g) |-> \E y \in 1..GridH(g) : g[y][x][4] > 0]
        first(b) == (CHOOSE i \in 1..Len(b) : b[i] /\ \A j \in 1..(i - 1) : ~b[j]) - 1
        last(b)  == (CHOOSE i \in 1..Len(b) : b[i] /\ \A j \in (i + 1)..Len(b) : ~b[j]) - 1
    IN IF \A y \in 1..GridH(g) : ~rows[y] THEN Absent
       ELSE Some(<<first(cols), first(rows), last(cols) - first(cols) + 1,
                   last(rows) - first(rows) + 1>>)

\* FastSprite.trim()
FastTrim(g) ==
    LET bounds == FastOpaqueBounds(g) IN
    IF ~Has(bounds) THEN FastEmpty(1, 1)
    ELSE FastCrop(g, Get(bounds)[1], Get(bounds)[2], Get(bounds)[3], Get(bounds)[4])

\* A fully transparent red: alpha 0, color channels kept.
Tint == <<255, 0, 0, 0>>

FastColors == {TRANSPARENT, BLACK, Tint}

FastGrids ==
    GridsOver(FastColors, 1, 1) \cup GridsOver(FastColors, 2, 1)
        \cup GridsOver(FastColors, 1, 2)

FastOthers == GridsOver(FastColors, 1, 1) \cup GridsOver(FastColors, 2, 1)

\* A Sprite and the FastSprite of the same pixels.
InitFast ==
    /\ sprite_defs = [n \in DefNames |-> BlockDef(<< <<"K">> >>)]
    /\ palette = [ch \in {".", "K"} |-> IF ch = "." THEN TRANSPARENT ELSE BLACK]
    /\ only = Absent
    /\ results = <<>>
    /\ loopIdx = 1
    /\ stack = <<>>
    /\ status = "idle"
    /\ raised = NoRaise
    /\ returned = Absent
    /\ rendered = [n \in DefNames \cup {Undefined} |-> 0]
    /\ prevStatus = "idle"
    /\ width = 1
    /\ height = 1
    /\ layers = <<>>
    /\ call = [op |-> "init", names |-> <<>>]
    /\ exc = "none"
    /\ flat = <<>>
    /\ heap = NoObjects
    /\ callerGrid = 0
    /\ self = 0
    /\ op = NoCall
    /\ out = NoOutcome
    /\ canvas = Unused
    /\ tilemap = Unused
    /\ layout = Unused
    /\ \E g \in FastGrids :
          fast = [step |-> "built", pixels |-> g, call |-> NoCall,
                  ref |-> Value(<<>>), got |-> Value(<<>>)]
    /\ auto = Unused
    /\ blending = Unused

FastFrame ==
    UNCHANGED <<specVars, stackVars, flat, heap, callerGrid, self, op, out,
                canvas, tilemap, layout, auto, blending>>

\* The same call on the Sprite and on the FastSprite: c names it, ref is
\* the Sprite's outcome, got the FastSprite's.
Both(c, ref, got) ==
    /\ fast.step = "built"
    /\ fast' = [fast EXCEPT !.step = "called", !.call = c, !.ref = ref, !.got = got]
    /\ FastFrame

FastEmptyCall(w, h) ==
    Both([NoCall EXCEPT !.name = "empty", !.w = w, !.h = h],
         OfSprite(EmptyOutcome(w, h)), FastEmpty(w, h))

FastGetPixelCall(x, y) ==
    Both([NoCall EXCEPT !.name = "get_pixel", !.x = x, !.y = y],
         GetPixel(fast.pixels, x, y), FastGetPixel(fast.pixels, x, y))

FastCropCall(x, y, w, h) ==
    Both([NoCall EXCEPT !.name = "crop", !.x = x, !.y = y, !.w = w, !.h = h],
         OfSprite(CropOutcome(fast.pixels, x, y, w, h)), FastCrop(fast.pixels, x, y, w, h))

FastPasteCall(other, x, y) ==
    \E result \in PasteChoices(fast.pixels, other, x, y) :
        Both([NoCall EXCEPT !.name = "paste", !.given = other, !.x = x, !.y = y],
             Value(result), FastPaste(fast.pixels, other, x, y))

FastFlipHCall ==
    Both([NoCall EXCEPT !.name = "flip_h"], Value(FlipH(fast.pixels)), FastFlipH(fast.pixels))

FastFlipVCall ==
    Both([NoCall EXCEPT !.name = "flip_v"], Value(FlipV(fast.pixels)), FastFlipV(fast.pixels))

FastReplaceColorCall(old, new) ==
    Both([NoCall EXCEPT !.name = "replace_color", !.old = old, !.new = new],
         Value(ReplaceColor(fast.pixels, old, new)), FastReplaceColor(fast.pixels, old, new))

FastOpaqueBoundsCall ==
    Both([NoCall EXCEPT !.name = "opaque_bounds"],
         Value(OpaqueBounds(fast.pixels)), Value(FastOpaqueBounds(fast.pixels)))

FastTrimCall ==
    Both([NoCall EXCEPT !.name = "trim"], OfSprite(TrimOutcome(fast.pixels)), FastTrim(fast.pixels))

NextFast ==
    \/ \E w \in (0 - 1)..2, h \in (0 - 1)..2 : FastEmptyCall(w, h)
    \/ \E x \in (0 - 1)..2, y \in (0 - 1)..2 : FastGetPixelCall(x, y)
    \/ \E x \in CropXs, y \in CropYs, w \in CropWs, h \in CropHs : FastCropCall(x, y, w, h)
    \/ \E other \in FastOthers, x \in PasteXs, y \in PasteYs : FastPasteCall(other, x, y)
    \/ FastFlipHCall
    \/ FastFlipVCall
    \/ \E old \in FastColors, new \in {TRANSPARENT, WHITE} : FastReplaceColorCall(old, new)
    \/ FastOpaqueBoundsCall
    \/ FastTrimCall

SpecFast == InitFast /\ [][NextFast]_vars

\* =========================================================== AutoPalette

\* _SINGLE_CHARS holds 62 characters, a-z, A-Z, 0-9; the model keeps the
\* first SingleCharCount of them.
SingleCharCount == 2

SingleChars == SubSeq(<<"a", "b", "c", "d">>, 1, SingleCharCount)

RECURSIVE Concat(_)
\* "".join(keys), and the pixels of a sprite row by row.
Concat(seqs) == IF seqs = <<>> THEN <<>> ELSE Head(seqs) \o Concat(Tail(seqs))

\* counter.most_common(): the distinct colors, the more frequent first,
\* those of one count in the order the loop first met them.
ColorsByFreq(g) ==
    LET all      == Concat(g)
        count(c) == Cardinality({i \in 1..Len(all) : all[i] = c})
        met(c)   == CHOOSE i \in 1..Len(all) : all[i] = c /\ \A j \in 1..(i - 1) : all[j] # c
        colors   == {all[i] : i \in 1..Len(all)}
        before(d, c) == count(d) > count(c) \/ (count(d) = count(c) /\ met(d) < met(c))
    IN [k \in 1..Cardinality(colors) |->
           CHOOSE c \in colors : Cardinality({d \in colors : before(d, c)}) = k - 1]

\* keys_2: the two-character keys in the order of the nested loops, which
\* stop at n keys or at the end of the characters.
TwoCharKeys(n) ==
    LET L == Len(SingleChars) IN
    [i \in 1..Min2(n, L * L) |->
        <<SingleChars[((i - 1) \div L) + 1], SingleChars[((i - 1) % L) + 1]>>]

\* MultiCharPalette(mapping, key_length).render(rows); the Palette of
\* key_length 1 is rendered by StringCanvas.
MultiRender(pairs, kl, rows) ==
    IF rows = <<>> THEN Fails("ValueError")
    ELSE LET kept == SelectSeq(rows, LAMBDA r : r # <<>>) IN
         IF kept = <<>> THEN Fails("ValueError")
         ELSE IF Len(kept[1]) % kl # 0 THEN Fails("ValueError")
         ELSE IF \E i \in 1..Len(kept) : Len(kept[i]) # Len(kept[1]) THEN Fails("ValueError")
         ELSE LET key(y, x) == SubSeq(kept[y], (x - 1) * kl + 1, x * kl)
                  w == Len(kept[1]) \div kl
              IN IF \E y \in 1..Len(kept), x \in 1..w :
                        \A i \in 1..Len(pairs) : pairs[i].key # key(y, x)
                 THEN Fails("KeyError")
                 ELSE Value([y \in 1..Len(kept) |-> [x \in 1..w |->
                          pairs[CHOOSE i \in 1..Len(pairs) : pairs[i].key = key(y, x)].color]])

\* AutoPalette.from_sprite(sprite, max_single_char): the palette, as its
\* key length and its <<[key, color]>>, and the rows.
FromSprite(g, max_single_char) ==
    LET colors == ColorsByFreq(g)
        n      == Len(colors)
        single == n <= Min2(max_single_char, Len(SingleChars))
        keys   == IF single THEN [i \in 1..n |-> <<SingleChars[i]>>] ELSE TwoCharKeys(n)
        keyOf(c) == keys[CHOOSE i \in 1..n : colors[i] = c]
    IN IF Len(keys) < n THEN [exc |-> "IndexError", key_length |-> 0, pairs |-> <<>>, rows |-> <<>>]
       ELSE [exc |-> "none",
             key_length |-> IF single THEN 1 ELSE 2,
             pairs |-> [i \in 1..n |-> [key |-> keys[i], color |-> colors[i]]],
             rows |-> [y \in 1..GridH(g) |-> Concat([x \in 1..GridW(g) |-> keyOf(g[y][x])])]]

\* Rendering the rows returned with the palette returned.
RenderAgain(r) ==
    IF r.key_length = 1
    THEN LET o == CanvasRender(PaletteMap([i \in 1..Len(r.pairs) |->
                                   [key |-> r.pairs[i].key[1], color |-> r.pairs[i].color]]),
                               r.rows)
         IN [exc |-> o.exc, value |-> o.sprite.pix]
    ELSE MultiRender(r.pairs, r.key_length, r.rows)

\* The sprites analysed: rows of up to MaxAutoWidth pixels in
\* SingleCharCount^2 + 1 colors, and two by two pixels in two.
MaxAutoWidth == 5

AutoColors == {<<i, 0, 0, 255>> : i \in 1..(SingleCharCount * SingleCharCount + 1)}

AutoGrids ==
    UNION {GridsOver(AutoColors, w, 1) : w \in 1..MaxAutoWidth}
        \cup GridsOver({TRANSPARENT, BLACK}, 2, 2)

InitAuto ==
    /\ sprite_defs = [n \in DefNames |-> BlockDef(<< <<"K">> >>)]
    /\ palette = [ch \in {".", "K"} |-> IF ch = "." THEN TRANSPARENT ELSE BLACK]
    /\ only = Absent
    /\ results = <<>>
    /\ loopIdx = 1
    /\ stack = <<>>
    /\ status = "idle"
    /\ raised = NoRaise
    /\ returned = Absent
    /\ rendered = [n \in DefNames \cup {Undefined} |-> 0]
    /\ prevStatus = "idle"
    /\ width = 1
    /\ height = 1
    /\ layers = <<>>
    /\ call = [op |-> "init", names |-> <<>>]
    /\ exc = "none"
    /\ flat = <<>>
    /\ heap = NoObjects
    /\ callerGrid = 0
    /\ self = 0
    /\ op = NoCall
    /\ out = NoOutcome
    /\ canvas = Unused
    /\ tilemap = Unused
    /\ layout = Unused
    /\ fast = Unused
    /\ \E g \in AutoGrids :
          auto = [step |-> "given", pixels |-> g, max_single_char |-> 0,
                  got |-> FromSprite(<< <<BLACK>> >>, 1), again |-> Value(<<>>)]
    /\ blending = Unused

AutoFrame ==
    UNCHANGED <<specVars, stackVars, flat, heap, callerGrid, self, op, out,
                canvas, tilemap, layout, fast, blending>>

\* palette, rows = AutoPalette.from_sprite(sprite, max_single_char)
FromSpriteCall(max_single_char) ==
    /\ auto.step = "given"
    /\ auto' = [auto EXCEPT !.step = "analysed", !.max_single_char = max_single_char,
                            !.got = FromSprite(auto.pixels, max_single_char)]
    /\ AutoFrame

\* palette.render(rows), or StringCanvas(palette).render(rows)
AutoRenders ==
    /\ auto.step = "analysed"
    /\ auto.got.exc = "none"
    /\ auto' = [auto EXCEPT !.step = "rendered", !.again = RenderAgain(auto.got)]
    /\ AutoFrame

NextAuto ==
    \/ \E m \in {1, SingleCharCount} : FromSpriteCall(m)
    \/ AutoRenders

SpecAuto == InitAuto /\ [][NextAuto]_vars

\* ========================================================== _blend_pixel

\* The channel values and alphas of the destination pixels blended onto.
BlendChannels == {0, 1, 128, 255}

BlendAlphas == {0, 128, 255}

BlendDsts == {<<r, g, b, a>> : r \in BlendChannels, g \in BlendChannels,
                               b \in BlendChannels, a \in BlendAlphas}

BlendSrcs == {WHITE, BLACK}

InitBlend ==
    /\ sprite_defs = [n \in DefNames |-> BlockDef(<< <<"K">> >>)]
    /\ palette = [ch \in {".", "K"} |-> IF ch = "." THEN TRANSPARENT ELSE BLACK]
    /\ only = Absent
    /\ results = <<>>
    /\ loopIdx = 1
    /\ stack = <<>>
    /\ status = "idle"
    /\ raised = NoRaise
    /\ returned = Absent
    /\ rendered = [n \in DefNames \cup {Undefined} |-> 0]
    /\ prevStatus = "idle"
    /\ width = 1
    /\ height = 1
    /\ layers = <<>>
    /\ call = [op |-> "init", names |-> <<>>]
    /\ exc = "none"
    /\ flat = <<>>
    /\ heap = NoObjects
    /\ callerGrid = 0
    /\ self = 0
    /\ op = NoCall
    /\ out = NoOutcome
    /\ canvas = Unused
    /\ tilemap = Unused
    /\ layout = Unused
    /\ fast = Unused
    /\ auto = Unused
    /\ \E dst \in BlendDsts :
          blending = [step |-> "given", src |-> TRANSPARENT, dst |-> dst,
                      mode |-> "normal", opacity |-> OpacityOne, got |-> dst]

\* got = _blend_pixel(src, dst, mode, 1.0)
BlendPixel(src, mode) ==
    /\ blending.step = "given"
    /\ \E got \in BlendChoices(src, blending.dst, mode, OpacityOne) :
          blending' = [blending EXCEPT !.step = "blended", !.src = src,
                                       !.mode = mode, !.got = got]
    /\ UNCHANGED <<specVars, stackVars, flat, heap, callerGrid, self, op, out,
                   canvas, tilemap, layout, fast, auto>>

NextBlend == \E src \in BlendSrcs, mode \in {"multiply", "screen"} : BlendPixel(src, mode)

SpecBlend == InitBlend /\ [][NextBlend]_vars

\* ================================================================ claims

\* C1: within one render call every sprite name is rendered (type-specific
\* rendering plus effects) at most once, however many definitions reference
\* it and whether or not it is also selected directly; every reference
\* resolved so far holds the memoized sprite of its name.
C1_RenderedAtMostOnce ==
    /\ \A n \in DOMAIN rendered : rendered[n] <= 1
    /\ \A k \in 1..Len(stack) :
          LET f == stack[k] IN
          f.pc = "refs" =>
             LET defn == sprite_defs[f.name]
                 cl   == CallList(defn)
             IN IF TypeOf(defn) = "layers"
                THEN \A i \in 1..Len(f.ls) :
                        /\ InResults(results, Get(cl[i + 1]))
                        /\ f.ls[i].sprite = Lookup(results, Get(cl[i + 1]))
                ELSE \A i \in 1..Len(f.parts) :
                        /\ InResults(results, Get(cl[i]))
                        /\ f.parts[i] = Lookup(results, Get(cl[i]))

\* "b" is selected directly and referenced three times by the layers
\* definition "a"; the call has returned.
C1_Witness ==
    /\ status = "returned"
    /\ only = Absent
    /\ TypeOf(sprite_defs["a"]) = "layers"
    /\ Len(CallList(sprite_defs["a"])) = 3
    /\ \A i \in 1..3 : CallList(sprite_defs["a"])[i] = Some("b")
    /\ rendered["b"] = 1
    /\ rendered["a"] = 1

\* C2: once resolution has come back to a name it is still resolving, the
\* call neither returns a result nor raises a SpecError: it stays on the
\* cycle, recursing, until the interpreter's call depth is exhausted.
C2_CycleNeverCompletes ==
    [][OnCycle =>
          \/ OnCycle'
          \/ (status' = "raised" /\ raised'.kind = "RecursionError")]_vars

\* Two names that list each other, gone round the cycle twice.
C2_Witness ==
    /\ OnCycle
    /\ Len(stack) >= 4
    /\ stack[1].name # stack[2].name
    /\ stack[1].name = stack[3].name

\* C3: for an acyclic reference graph a render call terminates: it returns a
\* result that holds every selected name, or it raises an error; no name is
\* rendered more than once.
C3_AcyclicTerminates ==
    /\ (status = "running" /\ Acyclic) ~> (status \in {"returned", "raised"})
    /\ [](Acyclic /\ status = "returned" =>
             /\ Has(returned)
             /\ Selected \subseteq Keys(Get(returned))
             /\ \A n \in DOMAIN rendered : rendered[n] <= 1)
    /\ [](Acyclic /\ status = "raised" => raised.kind # "none")

\* An acyclic spec of three definitions, all rendered, the call returned.
C3_Witness ==
    /\ Acyclic
    /\ status = "returned"
    /\ Len(Get(returned)) = 3
    /\ TypeOf(sprite_defs["a"]) \in CompositeTypes

\* C4: a render call that fails raises and returns no mapping, whatever was
\* rendered before the failure; a call that returns raised nothing.
C4_NoPartialResult ==
    /\ status = "raised" => (returned = Absent /\ raised.kind # "none")
    /\ status = "returned" => (Has(returned) /\ raised = NoRaise)

\* A call failed after it had rendered two names.
C4_Witness == status = "raised" /\ Len(results) >= 2

\* C5 as claimed: for every set S passed as `only` the result holds exactly
\* the defined names of S and what they reference.
C5_EverySet ==
    (status = "returned" /\ Has(only)) =>
        Keys(Get(returned)) = Closure(Get(only) \cap DefNames)

\* C5, amended: a non-empty `only` selects its defined names, an empty one
\* (like None) every definition; the result holds exactly the selected names
\* and what they reference, nothing else is rendered, and a failure arises
\* only at a selected name or a name referenced from one.
C5_NonEmptySet ==
    /\ Selected = (IF Has(only) /\ Get(only) # {}
                   THEN Get(only) \cap DefNames ELSE DefNames)
    /\ status = "returned" => Keys(Get(returned)) = Closure(Selected)
    /\ \A n \in DOMAIN rendered : rendered[n] > 0 => n \in Closure(Selected)
    /\ Keys(results) \subseteq Closure(Selected)
    /\ status = "raised" => raised.name \in Closure(Selected)

\* only = {"b", "c"} returned "b" and "c" although the definition of "a" is
\* malformed.
C5_Witness ==
    /\ status = "returned"
    /\ only = Some({"b", "c"})
    /\ MissingField(sprite_defs["a"])
    /\ Keys(Get(returned)) = {"b", "c"}

\* Why the call failed, read off the definition it failed in.
FailedUndefined == raised.phase = "enter" /\ raised.name \notin DOMAIN sprite_defs

FailedUnknownType ==
    /\ raised.phase = "enter"
    /\ raised.name \in DOMAIN sprite_defs
    /\ TypeOf(sprite_defs[raised.name]) \notin CompositeTypes \cup {"block"}

FailedMissingField ==
    /\ raised.phase = "enter"
    /\ raised.name \in DOMAIN sprite_defs
    /\ TypeOf(sprite_defs[raised.name]) \in CompositeTypes \cup {"block"}
    /\ MissingField(sprite_defs[raised.name])

FailedMissingLayerSprite ==
    /\ raised.phase = "call"
    /\ raised.name \in DOMAIN sprite_defs
    /\ TypeOf(sprite_defs[raised.name]) = "layers"
    /\ ~Has(CallList(sprite_defs[raised.name])[raised.idx])

\* C6: a failure caused by an undefined name, an unknown type or a missing
\* required field (the `sprite` of a layer mapping included) is a SpecError.
C6_AlwaysSpecError ==
    (status = "raised" /\ (\/ FailedUndefined
                           \/ FailedUnknownType
                           \/ FailedMissingField
                           \/ FailedMissingLayerSprite))
        => raised.kind = "SpecError"

\* C7: a call made after an earlier call on the same Spec, a failed one
\* included, ends as the same call on a Spec never used would: it raises the
\* same exception or returns the same sprite for every name; the definitions
\* and the palette are those the Spec was built with.
C7_RetryAsFresh ==
    /\ []((prevStatus # "idle" /\ status = "returned") =>
             /\ FreshExc = "none"
             /\ {Get(returned)[i] : i \in 1..Len(Get(returned))} = FreshEntries)
    /\ []((prevStatus # "idle" /\ status = "raised") => FreshExc = raised.kind)
    /\ [][sprite_defs' = sprite_defs /\ palette' = palette]_vars

\* "a" is malformed and an earlier call failed; the retry with
\* only = {"b", "c"} avoids it and returned two sprites.
C7_Witness ==
    /\ prevStatus = "raised"
    /\ status = "returned"
    /\ only = Some({"b", "c"})
    /\ MissingField(sprite_defs["a"])
    /\ Len(Get(returned)) = 2

\* How often name occurs in the list names.
Count(names, name) == Cardinality({i \in 1..Len(names) : names[i] = name})

\* names lists every layer of ls exactly once.
Permutes(names, ls) ==
    /\ Len(names) = Len(ls)
    /\ \A i \in 1..Len(ls) : Count(names, ls[i].name) = 1

\* C8: a reorder(names) that does not fail was given a permutation of the
\* current layer names, each exactly once, and leaves the same layers in
\* the order given.
C8_ReorderPermutation ==
    [][(call'.op = "reorder" /\ exc' = "none") =>
          /\ Permutes(call'.names, layers)
          /\ LayerNames(layers') = call'.names
          /\ Len(layers') = Len(layers)
          /\ {layers'[i] : i \in 1..Len(layers')} = {layers[i] : i \in 1..Len(layers)}]_vars

\* C9: whatever calls were made on the stack, layer_names holds no name
\* twice.
C9_NoDuplicateNames ==
    \A i \in 1..Len(layers) : \A j \in 1..Len(layers) :
        i # j => layers[i].name # layers[j].name

\* C10: whatever add_layer and set_opacity calls returned, every layer's
\* opacity lies between 0 and 1.
C10_OpacityInRange ==
    \A i \in 1..Len(layers) : layers[i].opacity \in 0..OpacityOne

C12_HiddenContributesNothing ==
    Has(flat) =>
        \A i \in 1..Len(layers) :
            (~layers[i].visible \/ layers[i].opacity = 0) =>
                Get(flat) = FlattenOutcome(width, height, PopAt(layers, i)).grid

\* A hidden layer of an opaque pixel lies under a shown one, and the
\* flattened pixel is not transparent.
C12_Witness ==
    /\ Has(flat)
    /\ Len(layers) = 2
    /\ ~layers[1].visible
    /\ layers[1].sprite.pix[1][1] = WHITE
    /\ layers[2].visible
    /\ TRANSPARENT \notin Get(flat)[1][1]

\* C13: with every opacity between 0 and 1, a pixel of the flattened sprite
\* whose alpha is 0 is the fully transparent color.  (Where the outcome
\* depends on floating-point rounding, one outcome that complies is enough.)
C13_AlphaZeroIsTransparent ==
    (Has(flat) /\ \A i \in 1..Len(layers) : layers[i].opacity \in 0..OpacityOne) =>
        \A y \in 1..height : \A x \in 1..width :
            \E c \in Get(flat)[y][x] : c[4] = 0 => c = TRANSPARENT

\* The integers nearest to n / d, for n >= 0 and d > 0: both neighbours of
\* a quotient that lies half-way.
Nearest(n, d) ==
    LET k == n \div d
        r == n % d
    IN IF 2 * r < d THEN {k} ELSE IF 2 * r > d THEN {k + 1} ELSE {k, k + 1}

\* Whether color c is the alpha-over composite of src, at the given opacity,
\* over dst, each channel rounded to a nearest integer and within 0..255:
\* out_a = sa + da (1 - sa), channel = (s sa + d da (1 - sa)) / out_a,
\* alpha = 255 out_a, for an opacity in (0, 1] and a source alpha above 0.
IsAlphaOverRounded(c, src, dst, opacity) ==
    LET SA == src[4] * opacity
        W  == 255 * OpacityOne - SA
        D  == 255 * SA + dst[4] * W
    IN /\ \A i \in 1..3 : c[i] \in Nearest(255 * src[i] * SA + dst[i] * dst[4] * W, D)
       /\ c[4] \in Nearest(D, 255 * OpacityOne)
       /\ \A i \in 1..4 : c[i] \in 0..255

\* C14: flatten's NORMAL blend yields, in every channel, the value of the
\* alpha-over formula rounded to the nearest integer, within 0..255.  (Where
\* the outcome depends on floating-point rounding, one outcome that complies
\* is enough.)
C14_RoundsToNearest ==
    Has(flat) =>
        \A k \in 1..Len(layers) : \A y \in 1..height : \A x \in 1..width :
            LET src == layers[k].sprite.pix[y][x] IN
            (/\ layers[k].visible
             /\ layers[k].blend_mode = "normal"
             /\ layers[k].opacity \in 1..OpacityOne
             /\ src[4] > 0) =>
                \A dst \in PixelChoices(layers, x, y, k - 1) :
                    \E c \in BlendChoices(src, dst, "normal", layers[k].opacity) :
                        IsAlphaOverRounded(c, src, dst, layers[k].opacity)

\* C15: pasting a sprite S at (0, 0) onto the empty sprite of S's size gives
\* a sprite equal to S, whatever mix of opaque, semi-transparent and fully
\* transparent pixels S has.
C15_PasteOnEmptyIsIdentity ==
    (/\ op.name = "paste"
     /\ op.x = 0
     /\ op.y = 0
     /\ Made(SelfPixels) = EmptyOutcome(GridW(ArgPixels), GridH(ArgPixels)))
        => OutPixels = ArgPixels

\* The last call was self.paste(other, x, y).
Pasted == op.name = "paste" /\ out.exc = "none"

\* Pixel (tx, ty) of the receiver lies under pixel (tx - x, ty - y) of the
\* sprite pasted.
Covered(tx, ty) ==
    /\ tx - op.x \in 0..(GridW(ArgPixels) - 1)
    /\ ty - op.y \in 0..(GridH(ArgPixels) - 1)

\* The pixel of the sprite pasted that lies over (tx, ty).
Over(tx, ty) == ArgPixels[ty - op.y + 1][tx - op.x + 1]

\* The sprite pasted is opaque throughout and lies within the receiver.
OpaqueWithin ==
    /\ \A sy \in 1..GridH(ArgPixels), sx \in 1..GridW(ArgPixels) : ArgPixels[sy][sx][4] = 255
    /\ op.x >= 0
    /\ op.y >= 0
    /\ op.x + GridW(ArgPixels) <= GridW(SelfPixels)
    /\ op.y + GridH(ArgPixels) <= GridH(SelfPixels)

\* C16: after pasting a sprite whose pixels all have alpha 255 entirely
\* within the destination, every covered pixel of the result equals the
\* source pixel over it.
C16_OpaquePasteReplaces ==
    (Pasted /\ OpaqueWithin) =>
        \A ty \in 0..(GridH(OutPixels) - 1), tx \in 0..(GridW(OutPixels) - 1) :
            Covered(tx, ty) => OutPixels[ty + 1][tx + 1] = Over(tx, ty)

\* An opaque two-pixel sprite was pasted at x = 1 of a three-pixel row that
\* held other colors there.
C16_Witness ==
    /\ Pasted
    /\ OpaqueWithin
    /\ op.x = 1
    /\ GridW(ArgPixels) = 2
    /\ SelfPixels[1][2] # ArgPixels[1][1]
    /\ SelfPixels[1][3] = Glow
    /\ OutPixels[1][1] = SelfPixels[1][1]

\* C17: for every offset, negative and out of bounds included, paste
\* raises nothing and returns a sprite of the receiver's size; its pixels
\* outside the rectangle of the pasted sprite, and those under a source
\* pixel of alpha 0, are the receiver's; source pixels that fall outside
\* the receiver are dropped.
C17_PasteKeepsTheRest ==
    (op.name = "paste") =>
        /\ out.exc = "none"
        /\ GridW(OutPixels) = GridW(SelfPixels)
        /\ GridH(OutPixels) = GridH(SelfPixels)
        /\ \A ty \in 0..(GridH(SelfPixels) - 1), tx \in 0..(GridW(SelfPixels) - 1) :
              (IF Covered(tx, ty) THEN Over(tx, ty)[4] = 0 ELSE TRUE) =>
                  OutPixels[ty + 1][tx + 1] = SelfPixels[ty + 1][tx + 1]

\* A two-pixel sprite was pasted at x = -1 over a colored receiver: its
\* first pixel, an opaque one, fell outside, its second one is fully
\* transparent.
C17_Witness ==
    /\ Pasted
    /\ op.x = 0 - 1
    /\ GridW(ArgPixels) = 2
    /\ ArgPixels[1][1] = WHITE
    /\ ArgPixels[1][2] = TRANSPARENT
    /\ SelfPixels[1][1] = BLACK
    /\ OutPixels = SelfPixels

\* The Sprite called, the sprite it returned, the sprite pasted and the
\* caller's grid hold no row and no list of rows in common.
Unshared ==
    LET held == <<Storage(heap, callerGrid), Storage(heap, self)>>
                    \o (IF out.pixels # 0 THEN <<Storage(heap, out.pixels)>> ELSE <<>>)
                    \o (IF op.arg # 0 THEN <<Storage(heap, op.arg)>> ELSE <<>>)
    IN \A i, j \in 1..Len(held) : i # j => held[i] \cap held[j] = {}

\* C18: crop, paste, flip_h, flip_v, replace_color and trim leave the
\* pixels and the size of the receiver as they were, and paste those of its
\* argument; the sprite returned shares no row and no list of rows with the
\* receiver; and a Sprite built from a caller's grid keeps its pixels when
\* the caller later changes that grid.
C18_ValueSemantics ==
    [][/\ Pixels(heap', self') = Pixels(heap, self)
       /\ Unshared
       /\ Unshared'
       /\ (op'.name = "paste" => Pixels(heap', op'.arg) = op'.given)]_vars

\* paste wrote a pixel into the rows it returned, and the receiver and the
\* sprite pasted still hold what they held.
C18_Witness ==
    /\ Pasted
    /\ OutPixels # SelfPixels
    /\ OutPixels # ArgPixels
    /\ ArgPixels = op.given
    /\ Pixels(heap, callerGrid) = SelfPixels

\* The pixels of the receiver that lie in both [x, x + w) x [y, y + h) and
\* the receiver's bounds, and whether there is any.
Intersection(x, y, w, h) ==
    LET x0 == Max2(0, x)
        y0 == Max2(0, y)
        x1 == Min2(GridW(SelfPixels), x + w)
        y1 == Min2(GridH(SelfPixels), y + h)
    IN IF x1 <= x0 \/ y1 <= y0 THEN Failed("ValueError")
       ELSE Made([r \in 1..(y1 - y0) |-> SubSeq(SelfPixels[y0 + r], x0 + 1, x1)])

\* C19: crop(x, y, w, h) returns exactly the pixels of the intersection of
\* [x, x + w) x [y, y + h) with the sprite's bounds, for every x and y,
\* negative ones included, and every w and h; it fails when that
\* intersection has no area.
C19_CropIsIntersection ==
    (op.name = "crop") =>
        LET want == Intersection(op.x, op.y, op.w, op.h) IN
        /\ out.exc = want.exc
        /\ out.exc = "none" => OutPixels = want.pixels

\* C20: trim() of a sprite with a pixel of alpha > 0 returns a sprite whose
\* opaque_bounds() is (0, 0, width, height); a sprite without such a pixel
\* has opaque_bounds() None and trim() returns the 1 x 1 transparent sprite.
C20_TrimIsTight ==
    (op.name = "trim") =>
        /\ out.exc = "none"
        /\ IF \E y \in 1..GridH(SelfPixels), x \in 1..GridW(SelfPixels) : SelfPixels[y][x][4] > 0
           THEN OpaqueBounds(OutPixels) = Some(<<0, 0, GridW(OutPixels), GridH(OutPixels)>>)
           ELSE /\ OpaqueBounds(SelfPixels) = Absent
                /\ OutPixels = << <<TRANSPARENT>> >>

\* trim() cut a row of three pixels to the visible one in its middle.
C20_Witness ==
    /\ op.name = "trim"
    /\ out.exc = "none"
    /\ GridW(SelfPixels) = 3
    /\ SelfPixels[1][1] = TRANSPARENT
    /\ SelfPixels[1][2] = Glow
    /\ SelfPixels[1][3] = TRANSPARENT
    /\ OutPixels = << <<Glow>> >>

\* The rows handed to render are at least one, as long as the first and
\* not empty, and use only keys of the palette.
ValidRows ==
    /\ canvas.rows # <<>>
    /\ \A i \in 1..Len(canvas.rows) :
          /\ Len(canvas.rows[i]) = Len(canvas.rows[1])
          /\ Len(canvas.rows[i]) > 0
          /\ \A x \in 1..Len(canvas.rows[i]) : canvas.rows[i][x] \in PaletteKeys(canvas.palette)

\* C21: for every palette, palettes with several keys of one color
\* included, and every non-empty list R of equal-length rows over its keys,
\* to_string(render(R), P) equals R.
C21_RoundTrip ==
    ValidRows =>
        /\ canvas.step = "rendered" => canvas.out.exc = "none"
        /\ canvas.step = "strings" =>
              canvas.strings.exc = "none" /\ canvas.strings.rows = canvas.rows

\* C22: render fails when rows is empty, when a row's length differs from
\* the first row's (a zero-length row among longer ones included) or when a
\* character is not in the palette; when it succeeds the sprite is
\* len(rows) high and len(rows[0]) wide.
C22_RenderRejects ==
    (canvas.step = "rendered") =>
        /\ (\/ canvas.rows = <<>>
            \/ \E i \in 1..Len(canvas.rows) :
                 \/ Len(canvas.rows[i]) # Len(canvas.rows[1])
                 \/ \E x \in 1..Len(canvas.rows[i]) :
                      canvas.rows[i][x] \notin PaletteKeys(canvas.palette))
              => canvas.out.exc # "none"
        /\ canvas.out.exc = "none" =>
              /\ canvas.out.sprite.h = Len(canvas.rows)
              /\ canvas.out.sprite.w = Len(canvas.rows[1])

\* C23: TileMap.to_sprite() returns a sprite of cols * tile_w by
\* rows * tile_h pixels in which the block of grid cell (gx, gy) equals the
\* tile of the character at row gy, column gx.
C23_BlocksAreTiles ==
    (tilemap.step = "drawn") =>
        LET tw == GridW(tilemap.tiles[1].tile)
            th == GridH(tilemap.tiles[1].tile)
        IN /\ GridW(tilemap.sprite) = Len(tilemap.grid[1]) * tw
           /\ GridH(tilemap.sprite) = Len(tilemap.grid) * th
           /\ \A gy \in 1..Len(tilemap.grid), gx \in 1..Len(tilemap.grid[1]) :
                 [y \in 1..th |->
                     SubSeq(tilemap.sprite[(gy - 1) * th + y], (gx - 1) * tw + 1, gx * tw)]
                     = TileOf(tilemap.tiles, tilemap.grid[gy][gx])

\* No two regions of the layout share a pixel.
NoOverlap ==
    \A i, j \in 1..Len(layout.regions) :
        i # j =>
            LET r == layout.regions[i]
                q == layout.regions[j]
            IN \/ r.x + r.width <= q.x
               \/ q.x + q.width <= r.x
               \/ r.y + r.height <= q.y
               \/ q.y + q.height <= r.y

\* No part of a region of the layout is larger than that region.
NoneCropped ==
    \A k \in 1..Len(layout.parts) :
        layout.parts[k].name \in RegionNames(layout.regions) =>
            LET r == RegionOf(layout.regions, layout.parts[k].name) IN
            /\ GridW(layout.parts[k].sprite) <= r.width
            /\ GridH(layout.parts[k].sprite) <= r.height

\* C24: when the regions do not overlap and no part is larger than its
\* region, decompose(compose(parts)) gives back, for every part supplied
\* for a region, a sprite equal to that part.
C24_DecomposeInvertsCompose ==
    (layout.step = "decomposed" /\ NoOverlap /\ NoneCropped) =>
        \A k \in 1..Len(layout.parts) :
            layout.parts[k].name \in RegionNames(layout.regions) =>
                /\ layout.decomposed[layout.parts[k].name].exc = "none"
                /\ layout.decomposed[layout.parts[k].name].pixels = layout.parts[k].sprite

\* C25: for each of empty, get_pixel, crop, paste, flip_h, flip_v,
\* replace_color, opaque_bounds and trim and the same inputs, FastSprite and
\* Sprite give the same outcome: the same value, or both fail.
C25_FastMatchesSprite ==
    (fast.step = "called") =>
        IF fast.ref.exc # "none" THEN fast.got.exc # "none"
        ELSE fast.got.exc = "none" /\ fast.got.value = fast.ref.value

\* The pixels of the sprite analysed that have color c.
PixelCount(c) ==
    Cardinality({<<x, y>> \in (1..GridW(auto.pixels)) \X (1..GridH(auto.pixels)) :
                    auto.pixels[y][x] = c})

\* C26: from_sprite returns, for every sprite, a palette whose keys are
\* pairwise distinct and map one-to-one onto the sprite's distinct colors, a
\* color of strictly higher pixel count having an earlier key than one of
\* lower count; rendering the rows returned with that palette gives a sprite
\* equal to the input.
C26_AutoPaletteRoundTrip ==
    LET pairs == auto.got.pairs IN
    /\ auto.step = "analysed" =>
          /\ auto.got.exc = "none"
          /\ \A i, j \in 1..Len(pairs) :
                i # j => pairs[i].key # pairs[j].key /\ pairs[i].color # pairs[j].color
          /\ {pairs[i].color : i \in 1..Len(pairs)}
                = {auto.pixels[y][x] : x \in 1..GridW(auto.pixels), y \in 1..GridH(auto.pixels)}
          /\ \A i, j \in 1..Len(pairs) :
                PixelCount(pairs[i].color) > PixelCount(pairs[j].color) => i < j
    /\ auto.step = "rendered" =>
          auto.again.exc = "none" /\ auto.again.value = auto.pixels

\* C27: with opacity 1 and a fully opaque source, MULTIPLY of white over an
\* opaque color returns that color, MULTIPLY of black over an opaque color
\* returns opaque black, SCREEN of black over a destination of any alpha
\* returns the destination unchanged, and SCREEN of white over any
\* destination returns opaque white.
C27_BlendIdentities ==
    (blending.step = "blended") =>
        /\ (blending.mode = "multiply" /\ blending.src = WHITE /\ blending.dst[4] = 255)
              => blending.got = blending.dst
        /\ (blending.mode = "multiply" /\ blending.src = BLACK /\ blending.dst[4] = 255)
              => blending.got = BLACK
        /\ (blending.mode = "screen" /\ blending.src = BLACK)
              => blending.got = blending.dst
        /\ (blending.mode = "screen" /\ blending.src = WHITE)
              => blending.got = WHITE

\* C28: in Spec.render a name is stored in the result table only after every
\* name its definition references has been stored: the insertion order of
\* the table is a topological order of the reference graph.
C28_StoredAfterReferences ==
    \A i \in 1..Len(results) :
        \A m \in RefsOf(results[i].name) :
            \E j \in 1..(i - 1) : results[j].name = m

\* A returned table of three entries, stored against the order of the
\* definitions: "a" references "b" and "c", "b" references "c".
C28_Witness ==
    /\ status = "returned"
    /\ Len(results) = 3
    /\ results[3].name = "a"
    /\ RefsOf("a") = {"b", "c"}
    /\ RefsOf("b") = {"c"}

\* The outline of a definition changes the sprite: a true boolean, or a
\* mapping whose style is not NONE.
OutlineOn(defn) ==
    IF ~Has(defn.outline) THEN FALSE
    ELSE IF Get(defn.outline).bool THEN Get(defn.outline).on
    ELSE GetOr(Get(defn.outline).style, "thin") # "none"

\* The shadow of a definition is drawn: a true boolean, or a mapping.
ShadowOn(defn) ==
    IF ~Has(defn.shadow) THEN FALSE
    ELSE IF Get(defn.shadow).bool THEN Get(defn.shadow).on
    ELSE TRUE

\* The sprite under the shadow, where the definition has one.
UnderShadow(defn, s) == IF ShadowOn(defn) /\ s.parts # <<>> THEN s.parts[1] ELSE s

\* The sprite under the shadow and the outline: what the type-specific
\* rendering returned.
UnderEffects(defn, s) ==
    LET o == UnderShadow(defn, s) IN
    IF OutlineOn(defn) /\ o.parts # <<>> THEN o.parts[1] ELSE o

\* The sprite stored for a definition is its type-specific rendering with the
\* outline, where it has one, and on top of that the shadow, where it has
\* one, each once.
PostEffect(defn, s) ==
    /\ ShadowOn(defn) => s.op = "shadow"
    /\ OutlineOn(defn) => UnderShadow(defn, s).op = "outline"
    /\ UnderEffects(defn, s).op = TypeOf(defn)

\* C29: the outline and shadow of a definition are applied exactly once in a
\* render call, outline before shadow, after the type-specific rendering
\* and before the sprite is memoized; a strip, grid, tilemap or layers
\* definition that references the name is built from that post-effect
\* sprite, and the sprite returned for the name is the same one.
C29_EffectsOnceThenMemoized ==
    /\ \A i \in 1..Len(results) :
          LET n == results[i].name
              s == results[i].sprite
          IN /\ rendered[n] = 1
             /\ PostEffect(sprite_defs[n], s)
             /\ TypeOf(sprite_defs[n]) \in CompositeTypes =>
                   LET built == UnderEffects(sprite_defs[n], s) IN
                   {built.parts[k] : k \in 1..Len(built.parts)}
                       = {Lookup(results, m) : m \in RefsOf(n)}
    /\ status = "returned" => returned = Some(results)

\* A call has returned; "c" was stored with its outline under its shadow,
\* "b" was built from it, and the outlined "a" from "b".
C29_Witness ==
    /\ status = "returned"
    /\ InResults(results, "a") /\ InResults(results, "b") /\ InResults(results, "c")
    /\ OutlineOn(sprite_defs["c"]) /\ ShadowOn(sprite_defs["c"])
    /\ RefsOf("b") = {"c"}
    /\ OutlineOn(sprite_defs["a"]) /\ RefsOf("a") = {"b"}

\* The calls that take one layer's name and look it up.
ByNameCalls == {"remove_layer", "get_layer", "set_visibility", "set_opacity", "set_blend_mode"}

\* C30: a LayerStack call that fails leaves the layer sequence and every
\* layer's opacity, visibility and blend mode as they were, and these calls
\* fail: add_layer with a name the stack holds or a sprite of another size,
\* remove_layer, get_layer, set_visibility, set_opacity and set_blend_mode
\* with a name the stack does not hold, reorder with names that are not a
\* permutation of the layer names.  An add_layer that succeeds inserts exactly
\* one layer, at the index given or on top when none is given, and keeps the
\* others in their order.
C30_FailedCallsChangeNothing ==
    [][/\ exc' # "none" => layers' = layers
       /\ (call'.op \in ByNameCalls /\ ~HasLayer(layers, call'.names[1]))
             => (exc' # "none" /\ layers' = layers)
       /\ (call'.op = "reorder" /\ ~Permutes(call'.names, layers))
             => (exc' # "none" /\ layers' = layers)
       /\ \A name \in LNames, sprite \in SpriteArgs, opacity \in OpacityArgs,
             blend_mode \in BlendArgs, position \in PositionArgs :
             AddLayer(name, sprite, opacity, blend_mode, position) =>
                IF HasLayer(layers, name) \/ sprite.w # width \/ sprite.h # height
                THEN exc' # "none" /\ layers' = layers
                ELSE LET p == IF Has(position) THEN Get(position) + 1
                              ELSE Len(layers) + 1
                     IN /\ exc' = "none"
                        /\ Len(layers') = Len(layers) + 1
                        /\ layers'[p] = MkLayer(name, sprite, opacity, blend_mode)
                        /\ PopAt(layers', p) = layers]_vars

====
